---- MODULE Spec2Model ----
(***************************************************************************)
(* Force-directed network view (src/force.js): graph model build, d3-force *)
(* simulation life cycle, drag sessions, zoom, view activation, the mode   *)
(* setters and the draw operations of a rendered frame.                    *)
(*                                                                         *)
(* Numbers.  World and screen coordinates are integers; every input is     *)
(* drawn so that the divisions of the code are exact.  alpha is kept in    *)
(* units of 1/AlphaUnit and the zoom factor transform.k in units of        *)
(* 1/KUnit.  Node indices are 0-based as in the code; the node with        *)
(* _simIdx = i is simNodes[i + 1].  An optional number (fx, fy) is <<>>    *)
(* for null and <<v>> for the value v.                                     *)
(*                                                                         *)
(* d3 (third party) is modelled at its call sites by the documented        *)
(* behaviour of d3-force 3 / d3-zoom 3:                                    *)
(*   simulation.tick():  alpha += (alphaTarget - alpha) * alphaDecay;      *)
(*                       forces; node.x = node.fx if pinned else x += vx   *)
(*   timer step():       tick(); emit "tick"; if alpha < alphaMin, stop    *)
(*   restart()/stop():   start / stop the timer, alpha untouched           *)
(*   zoom.transform(t):  sets the transform as given and emits "zoom"      *)
(*   wheel:              scales about the pointer, k clamped to the extent *)
(***************************************************************************)
EXTENDS Integers, Sequences, FiniteSets, TLC

VARIABLES
    nodes,          \* window._steamData.netData.nodes (raw node list)
    positions,      \* layoutData.positions: id -> <<px, py>> in 1/1000
    links,          \* window._steamData.netData.links (raw edge list)
    innerSize,      \* <<window.innerWidth, window.innerHeight>>
    simNodes, renderLinks, forceLinks, nodeDegree, medianWeight,
    layoutLoaded, layoutError,
    active, width, height, transform,
    simulation,     \* TRUE when the d3 simulation object exists
    alpha, alphaTarget,
    stepper,        \* TRUE while the simulation's timer is running
    draggedNode, hoveredNode, selectedNode,
    dragListeners,  \* the four window listeners of startDrag are installed
    pointer,        \* last pointer position on screen, <<px, py>>
    touchHoldTimer, \* node captured by the pending 400 ms timer, or NoNode
    touch0,         \* world point under the finger of the touch gesture of the
                    \* zoom behaviour, or Null
    touches,        \* number of fingers on the canvas
    skipEdgeFrames,
    rafActivate,    \* pending animation-frame callbacks of activate()
    rafRender,      \* pending animation-frame callbacks of render()
    frameDrawn,     \* the last step drew a frame (render ran to its end)
    drawEdges,      \* render's drawEdges in that frame (skipEdgeFrames <= 0)
    sizeMode, layoutMode, groupMode,
    filterActive,   \* window._steamData.filterActive()
    filterPasses,   \* ids of the nodes whose game gamePassesFilter accepts
    forceProfile,   \* the force parameter bundle installed in the simulation
    collideR,       \* the radii held by the simulation's collide force, 1/100
    exported,       \* the last call of exportRender: its arguments, what it
                    \* returned and the live nodes whose vx, vy it wrote
    ticks,          \* single timer steps explored so far (exploration bound)
    tickedInDrag    \* history: a tick has run since the last startDrag

buildVars == <<simNodes, renderLinks, forceLinks, nodeDegree, medianWeight,
               layoutLoaded, layoutError>>
inputVars == <<nodes, positions, links, innerSize>>
simVars == <<simulation, alpha, alphaTarget, stepper>>
viewVars == <<active, width, height, transform>>
uiVars == <<draggedNode, hoveredNode, selectedNode, dragListeners, pointer,
            touchHoldTimer, touch0, touches>>
frameVars == <<skipEdgeFrames, rafActivate, rafRender, frameDrawn, drawEdges>>
modeVars == <<sizeMode, layoutMode, groupMode, forceProfile>>
filterVars == <<filterActive, filterPasses>>
vars == <<nodes, positions, links, innerSize, simNodes, renderLinks, forceLinks,
          nodeDegree, medianWeight, layoutLoaded, layoutError, active, width,
          height, transform, simulation, alpha, alphaTarget, stepper,
          draggedNode, hoveredNode, selectedNode, dragListeners, pointer,
          touchHoldTimer, touch0, touches, skipEdgeFrames, rafActivate, rafRender, frameDrawn,
          drawEdges, sizeMode, layoutMode, groupMode, forceProfile,
          collideR, exported, filterActive, filterPasses, ticks, tickedInDrag>>

----------------------------------------------------------------------------
(* Tuning constants of force.js.  Radii are in 1/100 (1.5 and 14 in the     *)
(* source), alpha values in 1/AlphaUnit (0.3, 0.005, ...), alphaDecay in    *)
(* 1/1000.                                                                 *)

NODE_MIN_R == 150
NODE_MAX_R == 1400
SIM_SPREAD == 500
MIN_RENDER_WEIGHT == 50
\* 20000 in the source.  Here it is a bound of the exploration, scaled to the
\* edge lists explored so that the physics subset is a proper prefix of the
\* render set.
MAX_FORCE_LINKS == 1

AlphaUnit == 10000000
KUnit == 100
ALPHA_INIT == 3000000
ALPHA_MIN == 50000
ALPHA_DECAY_PERMILLE == 28
DRAG_ALPHA_TARGET == 3000000
SETTLED_ALPHA == 50000
FIT_PAD == 140
SKIP_EDGE_FRAMES == 3
HIT_TOLERANCE == 20

(* Bounds of the exploration                                               *)
MaxRawLinks == 2
MaxTicks == 1
MaxRaf == 1
MaxSettleTicks == 150

NoNode == -1
Null == <<>>
Some(v) == <<v>>

Min(a, b) == IF a <= b THEN a ELSE b
Max(a, b) == IF a >= b THEN a ELSE b

----------------------------------------------------------------------------
(* Inputs                                                                  *)

RawNodeIds == <<"A", "B", "C">>
\* warm-start layout, coordinates in 1/1000 of the unit square
WarmStart == [id \in {"A", "B", "C"} |->
                 CASE id = "A" -> <<500, 500>>
                   [] id = "B" -> <<700, 500>>
                   [] id = "C" -> <<900, 500>>]
RawWeights == {49, 50, 600}
\* every raw node carries a game record; reviews is game[3], rating game[2]
\* and price game[4]
RawNodeLists == { [i \in 1..Len(RawNodeIds) |->
                      [id |-> RawNodeIds[i], reviews |-> 25 * i * i - 25 * i,
                       game |-> [rating |-> 20 * i + 20, price |-> 5 * i - 5]]] }
PositionMaps == { [id \in S |-> WarmStart[id]] : S \in SUBSET {"A", "B", "C"} }
RawLink == [source : 0..(Len(RawNodeIds) - 1), target : 0..(Len(RawNodeIds) - 1),
            weight : RawWeights]
RawLinkLists == UNION { [1..n -> RawLink] : n \in 0..MaxRawLinks }

----------------------------------------------------------------------------
(* loadAndBuild: pure parts                                                *)

\* floor of the square root, for 0 <= n <= (NODE_MAX_R - NODE_MIN_R)^2
RECURSIVE IsqrtBetween(_, _, _)
IsqrtBetween(n, lo, hi) ==
    IF lo = hi THEN lo
    ELSE LET mid == (lo + hi + 1) \div 2
         IN  IF mid * mid <= n THEN IsqrtBetween(n, mid, hi)
             ELSE IsqrtBetween(n, lo, mid - 1)

Isqrt(n) == IsqrtBetween(n, 0, NODE_MAX_R - NODE_MIN_R)

\* d3.scaleSqrt().domain([0, maxV]).range([NODE_MIN_R, NODE_MAX_R]) at
\* 0 <= v <= maxV, in 1/100 rounded down.  A domain [0, 0] maps every value
\* to the middle of the range.
scaleSqrt(maxV, v) ==
    IF maxV = 0 THEN (NODE_MIN_R + NODE_MAX_R) \div 2
    ELSE NODE_MIN_R +
         Isqrt(((NODE_MAX_R - NODE_MIN_R) * (NODE_MAX_R - NODE_MIN_R) * v) \div maxV)

\* d3.scaleLinear().domain([0, 100]).range([NODE_MIN_R, NODE_MAX_R])
scaleLinear(v) == NODE_MIN_R + ((NODE_MAX_R - NODE_MIN_R) * v) \div 100

RECURSIVE MaxReviewsOf(_, _, _)
MaxReviewsOf(ns, pos, i) ==
    IF i > Len(ns) THEN 0
    ELSE LET rest == MaxReviewsOf(ns, pos, i + 1)
         IN  IF ns[i].id \in DOMAIN pos THEN Max(ns[i].reviews, rest) ELSE rest

\* raw index (0-based) -> dense index, for the nodes that have a position
SurvivorsBefore(ns, pos, i) ==
    Cardinality({j \in 1..i : ns[j].id \in DOMAIN pos})

SimIdxByOrigIdxMutant(ns, pos) ==
    [i \in 0..(Len(ns) - 1) |-> SurvivorsBefore(ns, pos, i)]

simIdxByOrigIdx(ns, pos) ==
    [i \in {j \in 0..(Len(ns) - 1) : ns[j + 1].id \in DOMAIN pos} |->
        SurvivorsBefore(ns, pos, i)]

RECURSIVE BuildSimNodesKeepAllMutant(_, _, _, _)
BuildSimNodesKeepAllMutant(ns, pos, i, acc) ==
    IF i > Len(ns) THEN acc
    ELSE LET at == IF ns[i].id \in DOMAIN pos THEN pos[ns[i].id] ELSE <<500, 500>>
         IN  BuildSimNodesKeepAllMutant(ns, pos, i + 1, Append(acc,
                [x |-> ((at[1] - 500) * SIM_SPREAD * 2) \div 1000,
                 y |-> ((at[2] - 500) * SIM_SPREAD * 2) \div 1000,
                 r |-> scaleSqrt(MaxReviewsOf(ns, pos, 1), ns[i].reviews),
                 origIdx |-> i - 1,
                 id |-> ns[i].id,
                 game |-> ns[i].game,
                 reviews |-> ns[i].reviews,
                 simIdx |-> Len(acc),
                 fx |-> Null, fy |-> Null]))

RECURSIVE BuildSimNodes(_, _, _, _)
BuildSimNodes(ns, pos, i, acc) ==
    IF i > Len(ns) THEN acc
    ELSE IF ns[i].id \notin DOMAIN pos THEN BuildSimNodes(ns, pos, i + 1, acc)
    ELSE BuildSimNodes(ns, pos, i + 1, Append(acc,
            [x |-> ((pos[ns[i].id][1] - 500) * SIM_SPREAD * 2) \div 1000,
             y |-> ((pos[ns[i].id][2] - 500) * SIM_SPREAD * 2) \div 1000,
             r |-> scaleSqrt(MaxReviewsOf(ns, pos, 1), ns[i].reviews),
             origIdx |-> i - 1,
             id |-> ns[i].id,
             game |-> ns[i].game,
             reviews |-> ns[i].reviews,
             simIdx |-> Len(acc),
             fx |-> Null, fy |-> Null]))

RECURSIVE BuildRenderLinks(_, _, _, _)
BuildRenderLinks(ls, idx, i, acc) ==
    IF i > Len(ls) THEN acc
    ELSE IF ls[i].source \notin DOMAIN idx \/ ls[i].target \notin DOMAIN idx
         THEN BuildRenderLinks(ls, idx, i + 1, acc)
    ELSE IF ls[i].weight < MIN_RENDER_WEIGHT
         THEN BuildRenderLinks(ls, idx, i + 1, acc)
    ELSE BuildRenderLinks(ls, idx, i + 1, Append(acc,
            [si |-> idx[ls[i].source], ti |-> idx[ls[i].target],
             weight |-> ls[i].weight]))

\* Array.prototype.sort((a, b) => b.weight - a.weight): stable, descending
RECURSIVE InsertDesc(_, _)
InsertDesc(e, s) ==
    IF s = <<>> THEN <<e>>
    ELSE IF Head(s).weight >= e.weight THEN <<Head(s)>> \o InsertDesc(e, Tail(s))
    ELSE <<e>> \o s

RECURSIVE SortDescFrom(_, _, _)
SortDescFrom(s, i, acc) ==
    IF i > Len(s) THEN acc ELSE SortDescFrom(s, i + 1, InsertDesc(s[i], acc))

SortAscMutant(s) ==
    LET d == SortDescFrom(s, 1, <<>>) IN [i \in 1..Len(s) |-> d[Len(s) + 1 - i]]

sortByWeightDesc(s) == SortDescFrom(s, 1, <<>>)

\* the median taken at the upper of the two middle offsets
MedianUpperMutant(rl, old) ==
    IF Len(rl) > 0 THEN rl[((Len(rl) - 1) \div 2) + 1].weight ELSE old

\* the textbook median: the two middle weights of an even count averaged
MedianAveragedMutant(rl, old) ==
    IF Len(rl) = 0 THEN old
    ELSE IF Len(rl) % 2 = 1 THEN rl[(Len(rl) \div 2) + 1].weight
    ELSE (rl[Len(rl) \div 2].weight + rl[(Len(rl) \div 2) + 1].weight) \div 2

MedianOf(rl, old) == IF Len(rl) > 0 THEN rl[(Len(rl) \div 2) + 1].weight ELSE old

\* nodeDegree Map: one increment for link.si and one for link.ti
Incr(m, k) == IF k \in DOMAIN m THEN [m EXCEPT ![k] = @ + 1]
              ELSE [j \in DOMAIN m \cup {k} |-> IF j = k THEN 1 ELSE m[j]]

RECURSIVE DegreesFrom(_, _, _)
DegreesFrom(rl, i, m) ==
    IF i > Len(rl) THEN m
    ELSE DegreesFrom(rl, i + 1, Incr(Incr(m, rl[i].si), rl[i].ti))

DegreesOfForceSubsetMutant(rl) ==
    DegreesFrom(SubSeq(rl, 1, Min(Len(rl), MAX_FORCE_LINKS)), 1, <<>>)

computeDegrees(rl) == DegreesFrom(rl, 1, <<>>)

buildForceLinks(rl) ==
    [i \in 1..Min(Len(rl), MAX_FORCE_LINKS) |->
        [source |-> rl[i].si, target |-> rl[i].ti, weight |-> rl[i].weight]]

----------------------------------------------------------------------------
(* Coordinate transforms, hit detection, fit                               *)

zoomIdentity == [k |-> KUnit, x |-> 0, y |-> 0]

toScreenX(t, sx) == (sx * t.k) \div KUnit + t.x
toScreenY(t, sy) == (sy * t.k) \div KUnit + t.y
fromScreenX(t, px) == ((px - t.x) * KUnit) \div t.k
fromScreenY(t, py) == ((py - t.y) * KUnit) \div t.k

Abs(a) == IF a < 0 THEN -a ELSE a

\* the integer model represents fromScreen(p) exactly (with k = 0 the
\* division gives no finite number)
Exact(t, p) ==
    /\ t.k # 0
    /\ ((p[1] - t.x) * KUnit) % Abs(t.k) = 0
    /\ ((p[2] - t.y) * KUnit) % Abs(t.k) = 0

\* dist < node.r + (20 / k) * 0.5, compared on squares in 1/100; node.r is
\* in 1/100 and the tolerance term is rounded down to 1/100.  A node 250 or
\* more from the point on one axis is out of reach of every hit radius
\* (r <= 14, k >= 0.05; a negative k only lowers the radius, and no distance
\* is below a radius that is not positive).
WithinHitR(n, lx, ly, k) ==
    /\ Abs(n.x - lx) < 250 /\ Abs(n.y - ly) < 250
    /\ n.r + (100 * KUnit * (HIT_TOLERANCE \div 2)) \div k > 0
    /\ 100 * 100 * ((n.x - lx) * (n.x - lx) + (n.y - ly) * (n.y - ly))
         < (n.r + (100 * KUnit * (HIT_TOLERANCE \div 2)) \div k)
             * (n.r + (100 * KUnit * (HIT_TOLERANCE \div 2)) \div k)

Dist2(n, lx, ly) == (n.x - lx) * (n.x - lx) + (n.y - ly) * (n.y - ly)

\* the closest node within its hit radius; the first one wins a tie
hitTest(sn, t, loaded, mx, my) ==
    \* with k = 0 every distance is infinite or NaN and no comparison holds
    IF ~loaded \/ t.k = 0 THEN NoNode
    ELSE LET lx == fromScreenX(t, mx)
             ly == fromScreenY(t, my)
             hits == {i \in 1..Len(sn) : WithinHitR(sn[i], lx, ly, t.k)}
         IN  IF hits = {} THEN NoNode
             ELSE (CHOOSE i \in hits : \A j \in hits :
                      \/ Dist2(sn[i], lx, ly) < Dist2(sn[j], lx, ly)
                      \/ (Dist2(sn[i], lx, ly) = Dist2(sn[j], lx, ly) /\ i <= j)) - 1

RECURSIVE MinOver(_, _), MaxOver(_, _)
MinOver(s, i) == IF i = Len(s) THEN s[i] ELSE Min(s[i], MinOver(s, i + 1))
MaxOver(s, i) == IF i = Len(s) THEN s[i] ELSE Max(s[i], MaxOver(s, i + 1))

OrDefault(v, d) == IF v = 0 THEN d ELSE v

\* the transform fitToScreen computes for a non-empty node array
fitTransform(sn, w, h) ==
    LET xs == [i \in 1..Len(sn) |-> sn[i].x]
        ys == [i \in 1..Len(sn) |-> sn[i].y]
        x0 == MinOver(xs, 1)
        x1 == MaxOver(xs, 1)
        y0 == MinOver(ys, 1)
        y1 == MaxOver(ys, 1)
        dataW == OrDefault(x1 - x0, 100)
        dataH == OrDefault(y1 - y0, 100)
        k == Min(((w - FIT_PAD) * KUnit) \div dataW, ((h - FIT_PAD) * KUnit) \div dataH)
        cx == (x0 + x1) \div 2
        cy == (y0 + y1) \div 2
    IN  [k |-> k, x |-> (w \div 2) - (cx * k) \div KUnit,
         y |-> (h \div 2) - (cy * k) \div KUnit]

----------------------------------------------------------------------------
(* render and its callers.  The frame state threaded through one handler   *)
(* is [skip, raf, drawn, edges]: skipEdgeFrames, the pending callbacks     *)
(* scheduled by render, whether a frame was drawn, and drawEdges of the    *)
(* last frame drawn.                                                       *)

FrameState(skip, raf) == [skip |-> skip, raf |-> raf, drawn |-> FALSE, edges |-> FALSE]

render(fs, act, loaded) ==
    IF ~act \/ ~loaded THEN fs
    ELSE [skip |-> IF fs.skip > 0 THEN fs.skip - 1 ELSE fs.skip,
          raf  |-> IF fs.skip = 1 THEN fs.raf + 1 ELSE fs.raf,
          drawn |-> TRUE,
          edges |-> fs.skip <= 0]

\* "if (!simulation || simulation.alpha() < 0.005) render()"
renderIfIdle(fs, sim, a, act, loaded) ==
    IF ~sim \/ a < SETTLED_ALPHA THEN render(fs, act, loaded) ELSE fs

\* fitToScreen: the new transform and the frame state after the zoom
\* handler that zoomBehavior.transform invokes synchronously
fitToScreen(sn, t, w, h, fs, sim, a, act, loaded) ==
    IF Len(sn) = 0 THEN [t |-> t, fs |-> fs]
    ELSE [t |-> fitTransform(sn, w, h), fs |-> renderIfIdle(fs, sim, a, act, loaded)]

SetFrame(fs) ==
    /\ fs.raf <= MaxRaf
    /\ skipEdgeFrames' = fs.skip
    /\ rafRender' = fs.raf
    /\ frameDrawn' = fs.drawn
    /\ drawEdges' = fs.edges

NoFrame == SetFrame(FrameState(skipEdgeFrames, rafRender))

----------------------------------------------------------------------------
(* The d3-force simulation                                                 *)

\* alpha += (alphaTarget - alpha) * alphaDecay
tickAlpha(a, target) == a + ((target - a) * ALPHA_DECAY_PERMILLE) \div 1000

\* position update of one node in simulation.tick(); (dx, dy) is the
\* velocity the forces gave the node
tickNode(n, dx, dy) ==
    [n EXCEPT !.x = IF n.fx = Null THEN n.x + dx ELSE n.fx[1],
              !.y = IF n.fy = Null THEN n.y + dy ELSE n.fy[1]]

\* timer step(): "if (alpha < alphaMin) stepper.stop()"
StepperNeverStopsMutant(a) == TRUE

stepperAfterStep(a) == ~(a < ALPHA_MIN)

WorldX == {0, 200}
WorldY == {0}
Velocities == {<<-200, 0>>, <<0, 0>>, <<200, 0>>}

InWorld(sn) == \A i \in 1..Len(sn) : sn[i].x \in WorldX /\ sn[i].y \in WorldY

\* The timer left alone with alphaTarget 0: [a, n] after the steps it takes
\* until it stops itself (at least one; alpha only decreases, so sixteen
\* steps are taken at once while alpha stays at or above alphaMin).
Decay1(a) == tickAlpha(a, 0)
Decay4(a) == Decay1(Decay1(Decay1(Decay1(a))))
Decay16(a) == Decay4(Decay4(Decay4(Decay4(a))))

RECURSIVE RunTimer(_, _)
RunTimer(a, n) ==
    IF Decay16(a) >= ALPHA_MIN THEN RunTimer(Decay16(a), n + 16)
    ELSE LET a1 == Decay1(a)
         IN  IF stepperAfterStep(a1) THEN RunTimer(a1, n + 1)
             ELSE [a |-> a1, n |-> n + 1]

settleAlpha(a) == RunTimer(a, 0).a

ticksToSettle(a) == RunTimer(a, 0).n

----------------------------------------------------------------------------
(* Node sizes                                                              *)

SizeValue(n, mode, deg) ==
    CASE mode = "rating"      -> n.game.rating
      [] mode = "price"       -> n.game.price
      [] mode = "connections" -> IF n.simIdx \in DOMAIN deg THEN deg[n.simIdx] ELSE 0
      [] OTHER                -> n.reviews

\* recalcNodeSizes: the node array with every radius recomputed
recalcNodeSizes(sn, mode, deg) ==
    IF Len(sn) = 0 THEN sn
    ELSE LET vals == [i \in 1..Len(sn) |-> SizeValue(sn[i], mode, deg)]
             maxVal == Max(0, MaxOver(vals, 1))
         IN  [i \in 1..Len(sn) |->
                [sn[i] EXCEPT !.r = IF mode = "rating" THEN scaleLinear(vals[i])
                                    ELSE scaleSqrt(OrDefault(maxVal, 1), vals[i])]]

\* d3.forceCollide(d => d.r + 0.5): the radii the force reads when it is
\* installed on the nodes
collideRadii(sn) == [i \in 1..Len(sn) |-> sn[i].r + 50]

\* recalcNodeSizes: returns before the collide force when there is no node,
\* and reinstalls the force only on an existing simulation
collideAfterRecalc(sn, sim, old) ==
    IF Len(sn) = 0 \/ ~sim THEN old ELSE collideRadii(sn)

----------------------------------------------------------------------------
(* render: what a frame draws.  The operators below read the state that    *)
(* render reads when it is the last call of a handler: the state the       *)
(* handler leaves, and drawEdges as render computed it.                    *)

LABEL_ZOOM == 250
VIEW_MARGIN == 40

\* the two middle bands exchanged
LodBandsSwappedMutant(k, median) ==
    IF k < 80 THEN 10 * median
    ELSE IF k < 150 THEN 3 * median
    ELSE IF k < 300 THEN 6 * median
    ELSE 10 * MIN_RENDER_WEIGHT

\* const lodThreshold = k < 0.8 ? medianWeight : k < 1.5 ? medianWeight * 0.6
\*                    : k < 3.0 ? medianWeight * 0.3 : MIN_RENDER_WEIGHT,
\* times 10
lodThreshold(k, median) ==
    IF k < 80 THEN 10 * median
    ELSE IF k < 150 THEN 6 * median
    ELSE IF k < 300 THEN 3 * median
    ELSE 10 * MIN_RENDER_WEIGHT

\* "if (link.weight < lodThreshold) continue"
CulledAtThresholdMutant(link, k, median) == 10 * link.weight <= lodThreshold(k, median)

culledLOD(link, k, median) == 10 * link.weight < lodThreshold(k, median)

\* gamePassesFilter(node.game)
gamePassesFilter(n) == n.id \in filterPasses

\* the filter test of the base edge pass
culledFilter(link) ==
    /\ filterActive
    /\ ~gamePassesFilter(simNodes[link.si + 1])
    /\ ~gamePassesFilter(simNodes[link.ti + 1])

\* both ends beyond the same side of the viewport widened by the margin
culledViewport(link) ==
    LET sx == toScreenX(transform, simNodes[link.si + 1].x)
        sy == toScreenY(transform, simNodes[link.si + 1].y)
        ex == toScreenX(transform, simNodes[link.ti + 1].x)
        ey == toScreenY(transform, simNodes[link.ti + 1].y)
    IN  \/ (sx < -VIEW_MARGIN /\ ex < -VIEW_MARGIN)
        \/ (sx > width + VIEW_MARGIN /\ ex > width + VIEW_MARGIN)
        \/ (sy < -VIEW_MARGIN /\ ey < -VIEW_MARGIN)
        \/ (sy > height + VIEW_MARGIN /\ ey > height + VIEW_MARGIN)

\* edgeStyle(w).color
edgeStyle(w) ==
    IF w >= 500 THEN "#FF4488"
    ELSE IF w >= 200 THEN "#FF8833"
    ELSE IF w >= 100 THEN "#DDDD33"
    ELSE "#66AADD"

\* the order in which the colour groups are stroked
styles == <<"#66AADD", "#DDDD33", "#FF8833", "#FF4488">>

LinkIdxs == [i \in 1..Len(renderLinks) |-> i]

\* the render edges (by offset in renderLinks) that pass the LOD test
passLOD(k) ==
    LET Keep(i) == ~culledLOD(renderLinks[i], k, medianWeight)
    IN  SelectSeq(LinkIdxs, Keep)

\* the edges pushed to a colour group by the loop over renderLinks
edgeGroup(color) ==
    LET Keep(i) == /\ ~culledLOD(renderLinks[i], transform.k, medianWeight)
                   /\ ~culledFilter(renderLinks[i])
                   /\ ~culledViewport(renderLinks[i])
                   /\ edgeStyle(renderLinks[i].weight) = color
    IN  SelectSeq(LinkIdxs, Keep)

\* the base edge pass: one stroke per colour group that is not empty
baseEdgePass ==
    IF drawEdges /\ Len(renderLinks) > 0
    THEN LET Stroked(c) == edgeGroup(c) # <<>>
             batches == SelectSeq(styles, Stroked)
         IN  [b \in 1..Len(batches) |->
                 [op |-> "edges", color |-> batches[b], links |-> edgeGroup(batches[b])]]
    ELSE <<>>

\* Math.max(1, node.r * Math.min(k, 4)), in 1/100 px
screenR(n) == Max(100, (n.r * Min(transform.k, 4 * KUnit)) \div KUnit)

nodeInView(n) ==
    LET sx == 100 * toScreenX(transform, n.x)
        sy == 100 * toScreenY(transform, n.y)
        r == screenR(n)
    IN  ~ \/ sx + r < -100 * VIEW_MARGIN
          \/ sx - r > 100 * (width + VIEW_MARGIN)
          \/ sy + r < -100 * VIEW_MARGIN
          \/ sy - r > 100 * (height + VIEW_MARGIN)

\* passesFilter of the node pass; every node of the model has a game record
passesFilter(n) == ~filterActive \/ gamePassesFilter(n)

hasRing(n) == hoveredNode = n.simIdx \/ selectedNode = n.simIdx

\* ctx.globalAlpha at the fill of the node, in 1/100: set from passesFilter,
\* then set to 1 by the ring of a hovered or selected node
fillAlpha(n) == IF hasRing(n) THEN 100 ELSE IF passesFilter(n) THEN 92 ELSE 10

\* the draw operations of one node: the ring, if any, then the fill
nodeOps(n) ==
    IF ~nodeInView(n) THEN <<>>
    ELSE (IF hasRing(n) THEN << [op |-> "ring", node |-> n.simIdx, alpha |-> 100] >>
          ELSE <<>>)
         \o << [op |-> "node", node |-> n.simIdx, alpha |-> fillAlpha(n)] >>

RECURSIVE nodePassFrom(_)
nodePassFrom(i) ==
    IF i > Len(simNodes) THEN <<>> ELSE nodeOps(simNodes[i]) \o nodePassFrom(i + 1)

nodePass == nodePassFrom(1)

\* the highlighted-edge pass under the LOD test of the base edge pass
HighlightPassLodMutant ==
    IF (hoveredNode # NoNode \/ selectedNode # NoNode) /\ Len(renderLinks) > 0
    THEN LET h == IF hoveredNode # NoNode THEN hoveredNode ELSE selectedNode
             Keep(i) == /\ (renderLinks[i].si = h \/ renderLinks[i].ti = h)
                        /\ ~culledViewport(renderLinks[i])
                        /\ ~culledLOD(renderLinks[i], transform.k, medianWeight)
             drawn == SelectSeq(LinkIdxs, Keep)
         IN  [j \in 1..Len(drawn) |->
                 [op |-> "highlight", link |-> drawn[j],
                  color |-> IF hoveredNode # NoNode THEN "blue" ELSE "orange"]]
    ELSE <<>>

\* hoveredNode || selectedNode
highlightNode == IF hoveredNode # NoNode THEN hoveredNode ELSE selectedNode

\* the highlighted-edge pass: one stroke per incident edge in view
highlightPass ==
    IF highlightNode # NoNode /\ Len(renderLinks) > 0
    THEN LET Keep(i) == /\ (renderLinks[i].si = highlightNode
                              \/ renderLinks[i].ti = highlightNode)
                        /\ ~culledViewport(renderLinks[i])
             drawn == SelectSeq(LinkIdxs, Keep)
         IN  [j \in 1..Len(drawn) |->
                 [op |-> "highlight", link |-> drawn[j],
                  color |-> IF hoveredNode # NoNode THEN "blue" ELSE "orange"]]
    ELSE <<>>

\* simulation && simulation.alpha() > 0.005
settling == simulation /\ alpha > SETTLED_ALPHA

\* simNodes.slice().sort((a, b) => b.reviews - a.reviews), as offsets
RECURSIVE InsertByReviews(_, _)
InsertByReviews(i, s) ==
    IF s = <<>> THEN <<i>>
    ELSE IF simNodes[Head(s)].reviews >= simNodes[i].reviews
         THEN <<Head(s)>> \o InsertByReviews(i, Tail(s))
    ELSE <<i>> \o s

RECURSIVE sortedByReviews(_)
sortedByReviews(n) ==
    IF n = 0 THEN <<>> ELSE InsertByReviews(n, sortedByReviews(n - 1))

\* width that measureText reports for a title, in px
TEXT_WIDTH == 30
LABEL_HEIGHT == 12

\* the rectangle of the label of a node, in 1/100 px: [x, y, w, h]
labelRect(n) ==
    [x |-> 100 * toScreenX(transform, n.x) + screenR(n) + 400,
     y |-> 100 * toScreenY(transform, n.y) - 50 * LABEL_HEIGHT,
     w |-> 100 * TEXT_WIDTH, h |-> 100 * LABEL_HEIGHT]

overlaps(a, b) ==
    /\ a.x < b.x + b.w /\ a.x + a.w > b.x
    /\ a.y < b.y + b.h /\ a.y + a.h > b.y

labelInView(n) ==
    LET sx == toScreenX(transform, n.x)
        sy == toScreenY(transform, n.y)
    IN  ~ \/ sx < -VIEW_MARGIN \/ sx > width + VIEW_MARGIN
          \/ sy < -VIEW_MARGIN \/ sy > height + VIEW_MARGIN

\* the loop over the sorted nodes: placed is the sequence of offsets whose
\* labels were drawn so far
RECURSIVE labelsFrom(_, _, _)
labelsFrom(sorted, j, placed) ==
    IF j > Len(sorted) \/ Len(placed) >= Min(Len(sorted), (transform.k * 30) \div KUnit)
    THEN placed
    ELSE LET n == simNodes[sorted[j]]
         IN  IF \/ (filterActive /\ ~gamePassesFilter(n))
                \/ ~labelInView(n)
                \/ \E q \in 1..Len(placed) :
                      overlaps(labelRect(n), labelRect(simNodes[placed[q]]))
             THEN labelsFrom(sorted, j + 1, placed)
             ELSE labelsFrom(sorted, j + 1, Append(placed, sorted[j]))

labelPass ==
    IF transform.k >= LABEL_ZOOM /\ ~settling
    THEN LET placed == labelsFrom(sortedByReviews(Len(simNodes)), 1, <<>>)
         IN  [j \in 1..Len(placed) |-> [op |-> "label", node |-> placed[j] - 1]]
    ELSE <<>>

\* "if (hoveredNode && !draggedNode) drawNodeTooltip(...)"
tooltipPass ==
    IF hoveredNode # NoNode /\ draggedNode = NoNode
    THEN << [op |-> "tooltip", node |-> hoveredNode] >>
    ELSE <<>>

\* the highlighted edges stroked with the base edges, before the nodes
FrameOpsHighlightFirstMutant ==
    << [op |-> "background"] >>
    \o baseEdgePass
    \o highlightPass
    \o nodePass
    \o labelPass
    \o tooltipPass
    \o << [op |-> "stats", nodes |-> Len(simNodes), edges |-> Len(renderLinks),
           settling |-> settling] >>

\* an empty graph treated as nothing to draw: the frame ends after the
\* background
FrameOpsEmptyGraphBlankMutant ==
    IF Len(simNodes) = 0 THEN << [op |-> "background"] >>
    ELSE << [op |-> "background"] >>
         \o baseEdgePass
         \o nodePass
         \o highlightPass
         \o labelPass
         \o tooltipPass
         \o << [op |-> "stats", nodes |-> Len(simNodes), edges |-> Len(renderLinks),
                settling |-> settling] >>

\* the draw operations of the frame, in the order render issues them
frameOps ==
    << [op |-> "background"] >>
    \o baseEdgePass
    \o nodePass
    \o highlightPass
    \o labelPass
    \o tooltipPass
    \o << [op |-> "stats", nodes |-> Len(simNodes), edges |-> Len(renderLinks),
           settling |-> settling] >>

----------------------------------------------------------------------------
(* exportRender: the frame drawn on a canvas of its own                    *)

EXPORT_TICKS == 500
\* alphaMin(0.001) and alpha(1.0) of the fresh simulation
EXPORT_ALPHA_MIN == 10000
EXPORT_ALPHA == AlphaUnit

\* "for (let i = 0; i < 500 && sim.alpha() > 0.001; i++) sim.tick()": the
\* alpha and the number of ticks at the end of the loop (alpha only
\* decreases, so sixteen iterations are taken at once while the sixteenth
\* still passes the loop's test)
Decay15(a) == Decay4(Decay4(Decay4(Decay1(Decay1(Decay1(a))))))

RECURSIVE FreshRun(_, _)
FreshRun(a, i) ==
    IF i + 16 <= EXPORT_TICKS /\ Decay15(a) > EXPORT_ALPHA_MIN
    THEN FreshRun(Decay16(a), i + 16)
    ELSE IF i < EXPORT_TICKS /\ a > EXPORT_ALPHA_MIN
         THEN FreshRun(tickAlpha(a, 0), i + 1)
         ELSE [a |-> a, n |-> i]

\* the number of ticks of the fresh simulation, which starts at alpha 1
freshTicks == FreshRun(EXPORT_ALPHA, 0).n

\* Math.round(w * 0.04)
padPx(w) == (4 * w + 50) \div 100


\* the transform that fits the nodes ns to the export canvas
exportTransform(ns, w, h) ==
    LET xs == [i \in 1..Len(ns) |-> ns[i].x]
        ys == [i \in 1..Len(ns) |-> ns[i].y]
        x0 == MinOver(xs, 1)
        x1 == MaxOver(xs, 1)
        y0 == MinOver(ys, 1)
        y1 == MaxOver(ys, 1)
        dataW == OrDefault(x1 - x0, 100)
        dataH == OrDefault(y1 - y0, 100)
        k == Min(((w - 2 * padPx(w)) * KUnit) \div dataW,
                 ((h - 2 * padPx(w)) * KUnit) \div dataH)
    IN  [k |-> k, x |-> w \div 2 - (((x0 + x1) \div 2) * k) \div KUnit,
         y |-> h \div 2 - (((y0 + y1) \div 2) * k) \div KUnit]

\* Math.max(9, 11 * fontScale) with fontScale = w / 1920, in 1/100 px
exportFontSize(w) == Max(900, (1100 * w) \div 1920)

\* the rectangle of the label of node n on the export canvas, in 1/100 px
exportLabelRect(n, t, w) ==
    [x |-> 100 * toScreenX(t, n.x) + Max(100, (n.r * Min(t.k, 4 * KUnit)) \div KUnit)
             + (400 * w) \div 1920,
     y |-> 100 * toScreenY(t, n.y) - (exportFontSize(w) + 200) \div 2,
     w |-> 100 * TEXT_WIDTH, h |-> exportFontSize(w) + 200]

\* the label loop: at most 80 labels, none overlapping one placed before
EXPORT_MAX_LABELS == 80

RECURSIVE exportLabelsFrom(_, _, _, _, _, _)
exportLabelsFrom(ns, t, w, sorted, j, placed) ==
    IF j > Len(sorted) \/ Len(placed) >= Min(Len(sorted), EXPORT_MAX_LABELS)
    THEN placed
    ELSE IF \E q \in 1..Len(placed) :
               overlaps(exportLabelRect(ns[sorted[j]], t, w),
                        exportLabelRect(ns[placed[q]], t, w))
         THEN exportLabelsFrom(ns, t, w, sorted, j + 1, placed)
         ELSE exportLabelsFrom(ns, t, w, sorted, j + 1, Append(placed, sorted[j]))

\* the canvas exportRender returns for the nodes ns: the background, the
\* edge batches of all of renderLinks (no culling), every node at opacity
\* 0.92 and the labels
exportFrame(ns, w, h) ==
    LET t == exportTransform(ns, w, h)
        Links(c) == SelectSeq(LinkIdxs, LAMBDA i : edgeStyle(renderLinks[i].weight) = c)
        Stroked(c) == Links(c) # <<>>
        batches == SelectSeq(styles, Stroked)
    IN  [w |-> w, h |-> h, t |-> t,
         edges |-> [b \in 1..Len(batches) |->
                      [color |-> batches[b],
                       segs |-> [q \in 1..Len(Links(batches[b])) |->
                                  LET l == renderLinks[Links(batches[b])[q]]
                                  IN  <<toScreenX(t, ns[l.si + 1].x), toScreenY(t, ns[l.si + 1].y),
                                        toScreenX(t, ns[l.ti + 1].x), toScreenY(t, ns[l.ti + 1].y)>>]]],
         nodes |-> [i \in 1..Len(ns) |->
                      [x |-> toScreenX(t, ns[i].x), y |-> toScreenY(t, ns[i].y),
                       r |-> Max(100, (ns[i].r * Min(t.k, 4 * KUnit)) \div KUnit),
                       alpha |-> 92]],
         labels |-> exportLabelsFrom(ns, t, w, sortedByReviews(Len(ns)), 1, <<>>)]

\* "simNodes.map(n => ({ ...n }))": the fresh simulation moves copies, the
\* live node objects stay as they are
liveNodesAfterExport(live, copies) == live

\* "freshLinks = forceLinks.map(l => ({ source: l.source, target: l.target,
\* ... }))": d3.forceLink(forceLinks) of the live simulation has replaced
\* source and target of every force link by the live node objects, so the
\* fresh links end at live nodes, and the link force of the fresh simulation
\* adds to vx and vy of these at every one of its n ticks. The dense indices
\* of the live nodes written.
freshLinkWrites(fl, n) ==
    IF n = 0 THEN {}
    ELSE UNION { {fl[j].source, fl[j].target} : j \in 1..Len(fl) }

----------------------------------------------------------------------------
(* Initial state: init() has run resize, setupZoom and the listener        *)
(* registration, and loadAndBuild is waiting for its data.                 *)

Viewports == {<<340, 340>>}
SizeModeInputs == {"reviews", "connections"}
\* the modes the switch of recalcNodeSizes and the branches of setLayoutMode name
SizeModes == {"reviews", "rating", "price", "connections"}
LayoutModes == {"default", "tight", "spread", "clustered"}
\* the strings a caller of the setters passes, one of them unknown to each
SizeModeCalls == {"reviews", "connections", "bogus"}
LayoutModeCalls == {"default", "tight", "bogus"}
LayoutModeInputs == {"default", "tight"}
ALPHA_KEY_R == 5000000
ALPHA_SIZE_MODE == 500000
ALPHA_LAYOUT_MODE == 4000000
\* scaleExtent([0.05, 30]), in 1/KUnit
SCALE_EXTENT_MIN == 5
SCALE_EXTENT_MAX == 3000
\* the zoom factors the wheel is turned to
ZoomSteps == {100, 200}

\* the sizes the window is resized to
WindowSizes == {<<340, 340>>, <<540, 340>>, <<340, 540>>, <<100, 340>>}

MainPositionMaps == { [id \in S |-> WarmStart[id]] : S \in {{"A", "B"}} }
MainLinkLists == { << [source |-> 0, target |-> 1, weight |-> 600],
                      [source |-> 1, target |-> 2, weight |-> 50],
                      [source |-> 0, target |-> 2, weight |-> 49] >> }

InitWith(posMaps, linkLists) ==
    /\ nodes \in RawNodeLists
    /\ positions \in posMaps
    /\ links \in linkLists
    /\ simNodes = <<>> /\ renderLinks = <<>> /\ forceLinks = <<>>
    /\ nodeDegree = <<>> /\ medianWeight = 0
    /\ layoutLoaded = FALSE /\ layoutError = FALSE
    /\ active = FALSE
    /\ innerSize \in Viewports
    /\ width = innerSize[1] /\ height = innerSize[2]
    /\ transform = zoomIdentity
    /\ simulation = FALSE /\ alpha = 0 /\ alphaTarget = 0 /\ stepper = FALSE
    /\ draggedNode = NoNode /\ hoveredNode = NoNode /\ selectedNode = NoNode
    /\ dragListeners = FALSE
    /\ pointer = <<innerSize[1] \div 2, innerSize[2] \div 2>>
    /\ touchHoldTimer = NoNode
    /\ touch0 = Null /\ touches = 0
    /\ skipEdgeFrames = 0 /\ rafActivate = 0 /\ rafRender = 0
    /\ frameDrawn = FALSE /\ drawEdges = FALSE
    /\ sizeMode = "reviews" /\ layoutMode = "default" /\ groupMode = "genre"
    /\ forceProfile = "none" /\ collideR = <<>>
    /\ exported = [call |-> <<>>, ret |-> Null, wrote |-> {}]
    /\ filterActive = FALSE /\ filterPasses = {}
    /\ ticks = 0 /\ tickedInDrag = FALSE

Init == InitWith(MainPositionMaps, MainLinkLists)

InitBuild == InitWith(PositionMaps, RawLinkLists)

----------------------------------------------------------------------------
(* loadAndBuild                                                            *)

LoadAndBuild ==
    /\ ~layoutLoaded /\ ~layoutError
    /\ LET sn  == BuildSimNodes(nodes, positions, 1, <<>>)
           idx == simIdxByOrigIdx(nodes, positions)
           rl  == sortByWeightDesc(BuildRenderLinks(links, idx, 1, <<>>))
           \* initSimulation leaves alpha = 0.3, timer stopped
           fit == fitToScreen(sn, transform, width, height,
                              FrameState(skipEdgeFrames, rafRender),
                              TRUE, ALPHA_INIT, active, TRUE)
       IN  /\ simNodes' = sn
           /\ renderLinks' = rl
           /\ medianWeight' = MedianOf(rl, medianWeight)
           /\ nodeDegree' = computeDegrees(rl)
           /\ forceLinks' = buildForceLinks(rl)
           /\ layoutLoaded' = TRUE
           /\ simulation' = TRUE /\ alpha' = ALPHA_INIT /\ alphaTarget' = 0
           /\ forceProfile' = "default"
           /\ collideR' = collideRadii(sn)
           /\ IF active
              THEN /\ transform' = fit.t
                   /\ SetFrame(fit.fs)
                   /\ stepper' = TRUE
              ELSE /\ transform' = transform
                   /\ NoFrame
                   /\ stepper' = FALSE
    /\ UNCHANGED <<inputVars, filterVars, exported, layoutError, active, width, height,
                   uiVars, rafActivate, sizeMode, layoutMode, groupMode, ticks,
                   tickedInDrag>>

\* the catch branch: fetch failed, bad status or window._steamData missing
LoadFail ==
    /\ ~layoutLoaded /\ ~layoutError
    /\ layoutError' = TRUE
    /\ NoFrame
    /\ UNCHANGED <<inputVars, filterVars, collideR, exported, simNodes, renderLinks, forceLinks, nodeDegree,
                   medianWeight, layoutLoaded, viewVars, simVars, uiVars,
                   rafActivate, modeVars, ticks, tickedInDrag>>

\* the catch branch reached from the loop over the links (netData.links
\* missing): simNodes is built and renderLinks is empty by then, and
\* initSimulation has not run
LoadFailLate ==
    /\ ~layoutLoaded /\ ~layoutError
    /\ simNodes' = BuildSimNodes(nodes, positions, 1, <<>>)
    /\ renderLinks' = <<>>
    /\ layoutError' = TRUE
    /\ NoFrame
    /\ UNCHANGED <<inputVars, filterVars, collideR, exported, forceLinks, nodeDegree,
                   medianWeight, layoutLoaded, viewVars, simVars, uiVars,
                   rafActivate, modeVars, ticks, tickedInDrag>>

----------------------------------------------------------------------------
(* Timer of the simulation                                                 *)

\* one step of the timer: simulation.tick(), then the "tick" event (onTick),
\* then the check against alphaMin
TimerStep(cap) ==
    /\ simulation /\ stepper
    /\ ticks < cap
    /\ \E v \in [1..Len(simNodes) -> Velocities] :
          LET sn == [i \in 1..Len(simNodes) |-> tickNode(simNodes[i], v[i][1], v[i][2])]
          IN  /\ InWorld(sn)
              /\ simNodes' = sn
    /\ alpha' = tickAlpha(alpha, alphaTarget)
    \* onTick
    /\ SetFrame(render(FrameState(skipEdgeFrames, rafRender), active, layoutLoaded))
    /\ stepper' = stepperAfterStep(alpha')
    /\ ticks' = ticks + 1
    /\ tickedInDrag' = (tickedInDrag \/ draggedNode # NoNode)
    /\ UNCHANGED <<inputVars, filterVars, collideR, exported, renderLinks, forceLinks, nodeDegree, medianWeight,
                   layoutLoaded, layoutError, viewVars, simulation, alphaTarget,
                   uiVars, rafActivate, modeVars>>

Tick == TimerStep(MaxTicks)

\* The timer of an unsettled simulation runs, with no other event in
\* between, until it stops itself: ticksToSettle(alpha) consecutive steps of
\* the timer with alphaTarget 0.
TimerRunsToSettle ==
    /\ simulation /\ stepper
    /\ alphaTarget = 0
    /\ alpha >= ALPHA_MIN
    /\ \E xs \in [1..Len(simNodes) -> WorldX] :
          simNodes' = [i \in 1..Len(simNodes) |->
                          [simNodes[i] EXCEPT
                              !.x = IF simNodes[i].fx = Null THEN xs[i] ELSE simNodes[i].fx[1],
                              !.y = IF simNodes[i].fy = Null THEN @ ELSE simNodes[i].fy[1]]]
    /\ alpha' = settleAlpha(alpha)
    /\ stepper' = FALSE
    /\ LET n == ticksToSettle(alpha)
       IN  IF active /\ layoutLoaded
           THEN SetFrame([skip |-> Max(0, skipEdgeFrames - n),
                          raf |-> IF skipEdgeFrames > 0 /\ n >= skipEdgeFrames
                                  THEN rafRender + 1 ELSE rafRender,
                          drawn |-> TRUE,
                          edges |-> n > skipEdgeFrames])
           ELSE NoFrame
    /\ UNCHANGED <<inputVars, filterVars, collideR, exported, renderLinks, forceLinks, nodeDegree, medianWeight,
                   layoutLoaded, layoutError, viewVars, simulation, alphaTarget,
                   uiVars, rafActivate, modeVars, ticks, tickedInDrag>>

----------------------------------------------------------------------------
(* View life cycle                                                         *)

Activate ==
    /\ rafActivate < MaxRaf
    /\ active' = TRUE
    /\ skipEdgeFrames' = SKIP_EDGE_FRAMES
    \* resize()
    /\ width' = innerSize[1] /\ height' = innerSize[2]
    /\ rafActivate' = rafActivate + 1
    /\ frameDrawn' = FALSE
    /\ drawEdges' = FALSE
    /\ UNCHANGED <<inputVars, filterVars, collideR, exported, buildVars, transform, simVars,
                   uiVars, rafRender, modeVars, ticks, tickedInDrag>>

\* "if (simulation && simulation.alpha() > 0.005) simulation.restart()"
StepperLeftStoppedMutant(sim, a, st) == st

stepperAfterActivate(sim, a, st) == IF sim /\ a > SETTLED_ALPHA THEN TRUE ELSE st

\* the animation-frame callback requested by activate()
ActivateFrame ==
    /\ rafActivate > 0
    /\ rafActivate' = rafActivate - 1
    /\ IF active /\ layoutLoaded
       THEN LET fit == fitToScreen(simNodes, transform, width, height,
                                   FrameState(skipEdgeFrames, rafRender),
                                   simulation, alpha, active, layoutLoaded)
            IN  /\ transform' = fit.t
                /\ stepper' = stepperAfterActivate(simulation, alpha, stepper)
                /\ SetFrame(render(fit.fs, active, layoutLoaded))
       ELSE /\ NoFrame
            /\ UNCHANGED <<transform, stepper>>
    /\ UNCHANGED <<inputVars, filterVars, collideR, exported, buildVars, active, width, height, simulation,
                   alpha, alphaTarget, uiVars, modeVars, ticks, tickedInDrag>>

\* the animation-frame callback requested by render() when the edge-skip
\* counter reaches zero
RenderFrame ==
    /\ rafRender > 0
    /\ SetFrame(render(FrameState(skipEdgeFrames, rafRender - 1), active, layoutLoaded))
    /\ UNCHANGED <<inputVars, filterVars, collideR, exported, buildVars, viewVars, simVars, uiVars, rafActivate,
                   modeVars, ticks, tickedInDrag>>

\* the window is resized to w x h and its "resize" event runs onResize
WindowResize(w, h) ==
    /\ innerSize' = <<w, h>>
    /\ IF ~active
       THEN UNCHANGED <<width, height>> /\ NoFrame
       ELSE /\ width' = w /\ height' = h
            /\ SetFrame(render(FrameState(skipEdgeFrames, rafRender), active, layoutLoaded))
    /\ UNCHANGED <<nodes, positions, links, filterVars, collideR, exported, buildVars, active,
                   transform, simVars, uiVars, rafActivate, modeVars, ticks,
                   tickedInDrag>>

stepperAfterDeactivate == IF simulation THEN FALSE ELSE stepper

Deactivate ==
    /\ active' = FALSE
    /\ stepper' = stepperAfterDeactivate
    /\ touchHoldTimer' = NoNode
    /\ NoFrame
    /\ UNCHANGED <<inputVars, filterVars, collideR, exported, buildVars, width, height, transform, simulation,
                   alpha, alphaTarget, draggedNode, hoveredNode, selectedNode,
                   dragListeners, pointer, touch0, touches, rafActivate, modeVars,
                   ticks, tickedInDrag>>

----------------------------------------------------------------------------
(* Dragging                                                                *)

InCanvas(p) == 0 <= p[1] /\ p[1] <= width /\ 0 <= p[2] /\ p[2] <= height

\* screen images of the world points the pointer is moved to
PointerTargets == { <<toScreenX(transform, wx), toScreenY(transform, wy)>> :
                      wx \in WorldX, wy \in WorldY }

\* node.fx = px; node.fy = py for the node of dense index i
pin(sn, i, px, py) == [sn EXCEPT ![i + 1].fx = Some(px), ![i + 1].fy = Some(py)]

UnpinMutant(sn, i) == sn

unpin(sn, i) == [sn EXCEPT ![i + 1].fx = Null, ![i + 1].fy = Null]

\* startDrag(node), reached from the filter of the zoom behaviour
startDrag(hit) ==
    /\ draggedNode' = hit
    /\ simNodes' = pin(simNodes, hit, simNodes[hit + 1].x, simNodes[hit + 1].y)
    /\ alphaTarget' = DRAG_ALPHA_TARGET
    /\ stepper' = TRUE
    /\ dragListeners' = TRUE
    /\ tickedInDrag' = FALSE

\* mousedown on the canvas at the pointer: the zoom filter hit-tests and
\* starts a drag; on empty space the zoom behaviour begins a pan gesture
MouseDown ==
    /\ InCanvas(pointer) /\ Exact(transform, pointer)
    /\ LET hit == hitTest(simNodes, transform, layoutLoaded, pointer[1], pointer[2])
       IN  IF hit # NoNode
           THEN startDrag(hit)
           ELSE UNCHANGED <<draggedNode, simNodes, alphaTarget, stepper,
                            dragListeners, tickedInDrag>>
    /\ NoFrame
    /\ UNCHANGED <<inputVars, filterVars, collideR, exported, renderLinks, forceLinks, nodeDegree, medianWeight,
                   layoutLoaded, layoutError, viewVars, simulation, alpha,
                   hoveredNode, selectedNode, pointer, touchHoldTimer, touch0, touches, rafActivate,
                   modeVars, ticks>>

\* mousemove: onMouseMove on the canvas, then onDragMove on window
MouseMove(p) ==
    /\ pointer' = p
    /\ LET hit == hitTest(simNodes, transform, layoutLoaded, p[1], p[2])
           hovering == InCanvas(p) /\ draggedNode = NoNode /\ layoutLoaded
                       /\ hit # hoveredNode
       IN  /\ hoveredNode' = IF hovering THEN hit ELSE hoveredNode
           /\ SetFrame(IF hovering
                       THEN renderIfIdle(FrameState(skipEdgeFrames, rafRender),
                                         simulation, alpha, active, layoutLoaded)
                       ELSE FrameState(skipEdgeFrames, rafRender))
    /\ simNodes' = IF dragListeners /\ draggedNode # NoNode
                   THEN pin(simNodes, draggedNode,
                            fromScreenX(transform, p[1]), fromScreenY(transform, p[2]))
                   ELSE simNodes
    /\ UNCHANGED <<inputVars, filterVars, collideR, exported, renderLinks, forceLinks, nodeDegree, medianWeight,
                   layoutLoaded, layoutError, viewVars, simVars, draggedNode,
                   selectedNode, dragListeners, touchHoldTimer, touch0, touches, rafActivate, modeVars, ticks,
                   tickedInDrag>>

\* mouseup on window while the drag listeners are installed: onDragEnd
MouseUp ==
    /\ dragListeners
    /\ IF draggedNode = NoNode
       THEN UNCHANGED <<simNodes, draggedNode, alphaTarget, dragListeners>>
       ELSE /\ simNodes' = unpin(simNodes, draggedNode)
            /\ draggedNode' = NoNode
            /\ alphaTarget' = 0
            /\ dragListeners' = FALSE
    /\ NoFrame
    /\ UNCHANGED <<inputVars, filterVars, collideR, exported, renderLinks, forceLinks, nodeDegree, medianWeight,
                   layoutLoaded, layoutError, viewVars, simulation, alpha, stepper,
                   hoveredNode, selectedNode, pointer, touchHoldTimer, touch0, touches, rafActivate,
                   modeVars, ticks, tickedInDrag>>

\* click on the canvas at the pointer: onClick
OnClick ==
    /\ InCanvas(pointer) /\ Exact(transform, pointer)
    /\ IF draggedNode # NoNode \/ ~layoutLoaded
       THEN selectedNode' = selectedNode /\ NoFrame
       ELSE LET hit == hitTest(simNodes, transform, layoutLoaded, pointer[1], pointer[2])
            IN  /\ selectedNode' = IF hit # NoNode /\ selectedNode # hit THEN hit ELSE NoNode
                /\ SetFrame(render(FrameState(skipEdgeFrames, rafRender),
                                     active, layoutLoaded))
    /\ UNCHANGED <<inputVars, filterVars, collideR, exported, buildVars, viewVars, simVars, draggedNode,
                   hoveredNode, dragListeners, pointer, touchHoldTimer, touch0, touches,
                   rafActivate, modeVars, ticks, tickedInDrag>>

\* the pointer leaves the canvas: onMouseLeave
OnMouseLeave ==
    /\ IF draggedNode # NoNode
       THEN hoveredNode' = hoveredNode /\ NoFrame
       ELSE /\ hoveredNode' = NoNode
            /\ SetFrame(renderIfIdle(FrameState(skipEdgeFrames, rafRender),
                                      simulation, alpha, active, layoutLoaded))
    /\ UNCHANGED <<inputVars, filterVars, collideR, exported, buildVars, viewVars, simVars, draggedNode,
                   selectedNode, dragListeners, pointer, touchHoldTimer, touch0, touches,
                   rafActivate, modeVars, ticks, tickedInDrag>>

----------------------------------------------------------------------------
(* Touch                                                                   *)

\* fingers followed at once
MaxTouches == 2

\* A finger is put on the canvas at p.  The listeners of the zoom behaviour
\* were installed first (setupZoom precedes addEventListener in init), so
\* its filter runs first: d3.pointer(event, canvas) is handed the TouchEvent,
\* and whether it finds the finger's position depends on d3 (resolved).  On a
\* hit the filter starts the drag and returns false, and onTouchStart runs;
\* otherwise the zoom behaviour takes the touch as its gesture and stops the
\* propagation of the event, so onTouchStart does not run.
TouchStart(p, resolved) ==
    /\ touches < MaxTouches
    /\ InCanvas(p) /\ Exact(transform, p)
    /\ touches' = touches + 1
    /\ LET hit == IF resolved
                  THEN hitTest(simNodes, transform, layoutLoaded, p[1], p[2])
                  ELSE NoNode
       IN  IF hit # NoNode
           THEN /\ startDrag(hit)
                /\ touch0' = touch0
                \* onTouchStart: the hold timer is cleared, and armed again
                \* for a single finger on a node
                /\ touchHoldTimer' = IF touches' = 1 THEN hit ELSE NoNode
           ELSE /\ touch0' = IF touch0 = Null
                             THEN Some(<<fromScreenX(transform, p[1]),
                                         fromScreenY(transform, p[2])>>)
                             ELSE touch0
                /\ UNCHANGED <<draggedNode, simNodes, alphaTarget, stepper,
                               dragListeners, tickedInDrag, touchHoldTimer>>
    /\ NoFrame
    /\ UNCHANGED <<inputVars, filterVars, collideR, exported, renderLinks, forceLinks, nodeDegree, medianWeight,
                   layoutLoaded, layoutError, viewVars, simulation, alpha,
                   hoveredNode, selectedNode, pointer, rafActivate, modeVars, ticks>>

\* the transform of a touch gesture whose finger has moved to p: the world
\* point w0 stays under the finger
panTo(t, w0, p) ==
    [k |-> t.k, x |-> p[1] - (w0[1] * t.k) \div KUnit,
                y |-> p[2] - (w0[2] * t.k) \div KUnit]

\* A finger moves to p.  During a gesture of the zoom behaviour the view is
\* panned ("zoom" handler) and the event goes no further; otherwise
\* onTouchMove on the canvas and then, during a drag, onDragMove on window.
TouchMove(p) ==
    /\ touches > 0
    /\ InCanvas(p)
    /\ IF touch0 # Null
       THEN /\ transform' = panTo(transform, touch0[1], p)
            /\ SetFrame(renderIfIdle(FrameState(skipEdgeFrames, rafRender),
                                     simulation, alpha, active, layoutLoaded))
            /\ UNCHANGED <<touchHoldTimer, hoveredNode, simNodes>>
       ELSE /\ Exact(transform, p)
            /\ transform' = transform
            /\ touchHoldTimer' = IF layoutLoaded THEN NoNode ELSE touchHoldTimer
            /\ LET hit == hitTest(simNodes, transform, layoutLoaded, p[1], p[2])
                   hovering == layoutLoaded /\ draggedNode = NoNode /\ touches = 1
                               /\ hit # hoveredNode
               IN  /\ hoveredNode' = IF hovering THEN hit ELSE hoveredNode
                   /\ SetFrame(IF hovering
                               THEN renderIfIdle(FrameState(skipEdgeFrames, rafRender),
                                                 simulation, alpha, active, layoutLoaded)
                               ELSE FrameState(skipEdgeFrames, rafRender))
            /\ simNodes' = IF dragListeners /\ draggedNode # NoNode
                           THEN pin(simNodes, draggedNode,
                                    fromScreenX(transform, p[1]), fromScreenY(transform, p[2]))
                           ELSE simNodes
    /\ UNCHANGED <<inputVars, filterVars, collideR, exported, renderLinks, forceLinks, nodeDegree, medianWeight,
                   layoutLoaded, layoutError, active, width, height, simVars, draggedNode,
                   selectedNode, dragListeners, pointer, touch0, touches, rafActivate,
                   modeVars, ticks, tickedInDrag>>

\* A finger is lifted at p; tap: it was down for less than 300 ms and moved
\* less than 10 px.  During a gesture of the zoom behaviour the event goes
\* no further; otherwise onTouchEnd on the canvas and then, if the drag
\* listeners are installed, onDragEnd on window.
TouchEnd(p, tap) ==
    /\ touches > 0
    /\ InCanvas(p) /\ Exact(transform, p)
    /\ touches' = touches - 1
    /\ IF touch0 # Null
       THEN /\ touch0' = IF touches' = 0 THEN Null ELSE touch0
            /\ NoFrame
            /\ UNCHANGED <<touchHoldTimer, selectedNode, simNodes, draggedNode,
                           alphaTarget, dragListeners>>
       ELSE /\ touch0' = touch0
            /\ touchHoldTimer' = IF layoutLoaded THEN NoNode ELSE touchHoldTimer
            /\ IF layoutLoaded /\ tap
               THEN LET hit == hitTest(simNodes, transform, layoutLoaded, p[1], p[2])
                    IN  /\ selectedNode' = IF hit # NoNode /\ selectedNode # hit
                                           THEN hit ELSE NoNode
                        /\ SetFrame(render(FrameState(skipEdgeFrames, rafRender),
                                           active, layoutLoaded))
               ELSE selectedNode' = selectedNode /\ NoFrame
            /\ IF dragListeners /\ draggedNode # NoNode
               THEN /\ simNodes' = unpin(simNodes, draggedNode)
                    /\ draggedNode' = NoNode
                    /\ alphaTarget' = 0
                    /\ dragListeners' = FALSE
               ELSE UNCHANGED <<simNodes, draggedNode, alphaTarget, dragListeners>>
    /\ UNCHANGED <<inputVars, filterVars, collideR, exported, renderLinks, forceLinks, nodeDegree, medianWeight,
                   layoutLoaded, layoutError, viewVars, simulation, alpha, stepper,
                   hoveredNode, pointer, rafActivate, modeVars, ticks, tickedInDrag>>

\* the 400 ms timer of onTouchStart expires: its callback shows the tooltip
\* of the node it captured
HoldTimerExpires ==
    /\ touchHoldTimer # NoNode
    /\ hoveredNode' = touchHoldTimer
    /\ touchHoldTimer' = NoNode
    /\ SetFrame(renderIfIdle(FrameState(skipEdgeFrames, rafRender),
                             simulation, alpha, active, layoutLoaded))
    /\ UNCHANGED <<inputVars, filterVars, collideR, exported, buildVars, viewVars, simVars, draggedNode,
                   selectedNode, dragListeners, pointer, touch0, touches,
                   rafActivate, modeVars, ticks, tickedInDrag>>

----------------------------------------------------------------------------
(* Zoom and keyboard                                                       *)

\* the pointer is over one of the world points explored
OnGrid(t, p) ==
    /\ Exact(t, p)
    /\ fromScreenX(t, p[1]) \in WorldX
    /\ fromScreenY(t, p[2]) \in WorldY

\* wheel on the canvas: d3-zoom scales about the pointer, within scaleExtent
Wheel(k2) ==
    /\ InCanvas(pointer) /\ OnGrid(transform, pointer)
    /\ k2 # transform.k
    /\ SCALE_EXTENT_MIN <= k2 /\ k2 <= SCALE_EXTENT_MAX
    /\ transform' = [k |-> k2,
                     x |-> pointer[1] - (fromScreenX(transform, pointer[1]) * k2) \div KUnit,
                     y |-> pointer[2] - (fromScreenY(transform, pointer[2]) * k2) \div KUnit]
    /\ SetFrame(renderIfIdle(FrameState(skipEdgeFrames, rafRender),
                             simulation, alpha, active, layoutLoaded))
    /\ UNCHANGED <<inputVars, filterVars, collideR, exported, buildVars, active, width, height, simVars, uiVars,
                   rafActivate, modeVars, ticks, tickedInDrag>>

\* key R: reheat
KeyR ==
    /\ IF active /\ simulation
       THEN alpha' = ALPHA_KEY_R /\ stepper' = TRUE
       ELSE UNCHANGED <<alpha, stepper>>
    /\ NoFrame
    /\ UNCHANGED <<inputVars, filterVars, collideR, exported, buildVars, viewVars, simulation, alphaTarget,
                   uiVars, rafActivate, modeVars, ticks, tickedInDrag>>

\* key F: fit
KeyF ==
    /\ IF active
       THEN LET fit == fitToScreen(simNodes, transform, width, height,
                                   FrameState(skipEdgeFrames, rafRender),
                                   simulation, alpha, active, layoutLoaded)
            IN  transform' = fit.t /\ SetFrame(fit.fs)
       ELSE transform' = transform /\ NoFrame
    /\ UNCHANGED <<inputVars, filterVars, collideR, exported, buildVars, active, width, height, simVars, uiVars,
                   rafActivate, modeVars, ticks, tickedInDrag>>

\* selectGame(game): the node with that game record, if any, is centred at
\* k = 6, selected and hovered.  The transition of the zoom behaviour ends
\* at the transform assigned here.
SELECT_K == 600

SelectIds == {"A", "B", "Z"}

SelectGame(id) ==
    /\ LET found == {i \in 1..Len(simNodes) : simNodes[i].id = id}
       IN  IF ~layoutLoaded \/ Len(simNodes) = 0 \/ found = {}
           THEN UNCHANGED <<transform, selectedNode, hoveredNode>> /\ NoFrame
           ELSE LET target == simNodes[CHOOSE i \in found : TRUE]
                IN  /\ transform' = [k |-> SELECT_K,
                                     x |-> width \div 2 - (target.x * SELECT_K) \div KUnit,
                                     y |-> height \div 2 - (target.y * SELECT_K) \div KUnit]
                    /\ selectedNode' = target.simIdx
                    /\ hoveredNode' = target.simIdx
                    /\ SetFrame(render(FrameState(skipEdgeFrames, rafRender),
                                        active, layoutLoaded))
    /\ UNCHANGED <<inputVars, filterVars, collideR, exported, buildVars, active, width, height,
                   simVars, draggedNode, dragListeners, pointer, touchHoldTimer, touch0, touches,
                   rafActivate, modeVars, ticks, tickedInDrag>>

\* exportRender(w, h, layoutSource).  With 'fresh' a simulation of its own
\* runs on copies of the nodes (a pinned copy stays at its pin) until alpha
\* is at most 0.001 or 500 ticks have run; any other source draws the live
\* positions.
ExportSizes == {<<1920, 1080>>, <<960, 540>>}
ExportSources == {"precomputed", "fresh"}

ExportRender(w, h, source) ==
    /\ IF ~layoutLoaded \/ Len(simNodes) = 0
       THEN /\ exported' = [call |-> <<w, h, source>>, ret |-> Null, wrote |-> {}]
            /\ simNodes' = simNodes
       ELSE IF source = "fresh"
       THEN \E xs \in [1..Len(simNodes) -> WorldX] :
              LET copies == [i \in 1..Len(simNodes) |->
                               [simNodes[i] EXCEPT
                                  !.x = IF simNodes[i].fx = Null THEN xs[i]
                                        ELSE simNodes[i].fx[1],
                                  !.y = IF simNodes[i].fy = Null THEN @
                                        ELSE simNodes[i].fy[1]]]
              IN  /\ exported' = [call |-> <<w, h, source>>,
                                  ret |-> Some([frame |-> exportFrame(copies, w, h),
                                                ticks |-> freshTicks]),
                                  wrote |-> freshLinkWrites(forceLinks, freshTicks)]
                  /\ simNodes' = liveNodesAfterExport(simNodes, copies)
       ELSE /\ exported' = [call |-> <<w, h, source>>,
                            ret |-> Some([frame |-> exportFrame(simNodes, w, h),
                                          ticks |-> 0]),
                            wrote |-> {}]
            /\ simNodes' = simNodes
    /\ NoFrame
    /\ UNCHANGED <<inputVars, filterVars, collideR, renderLinks, forceLinks, nodeDegree,
                   medianWeight, layoutLoaded, layoutError, viewVars, simVars, uiVars,
                   rafActivate, modeVars, ticks, tickedInDrag>>

----------------------------------------------------------------------------
(* Mode setters                                                            *)

SetSizeMode(mode) ==
    /\ sizeMode' = mode
    /\ simNodes' = recalcNodeSizes(simNodes, mode, nodeDegree)
    /\ collideR' = collideAfterRecalc(simNodes', simulation, collideR)
    /\ IF simulation /\ active
       THEN alpha' = ALPHA_SIZE_MODE /\ stepper' = TRUE /\ NoFrame
       ELSE /\ UNCHANGED <<alpha, stepper>>
            /\ IF active
               THEN SetFrame(render(FrameState(skipEdgeFrames, rafRender),
                                    active, layoutLoaded))
               ELSE NoFrame
    /\ UNCHANGED <<inputVars, filterVars, exported, renderLinks, forceLinks, nodeDegree,
                   medianWeight, layoutLoaded, layoutError, viewVars, simulation,
                   alphaTarget, uiVars, rafActivate, layoutMode, groupMode, forceProfile,
                   ticks, tickedInDrag>>

\* the bundle setLayoutMode installs for a mode string
ProfileOf(mode) == IF mode \in {"tight", "spread", "clustered"} THEN mode ELSE "default"

SetLayoutMode(mode) ==
    /\ layoutMode' = mode
    /\ IF ~simulation \/ ~active
       THEN UNCHANGED <<forceProfile, alpha, stepper>>
       ELSE /\ forceProfile' = ProfileOf(mode)
            /\ alpha' = ALPHA_LAYOUT_MODE
            /\ stepper' = TRUE
    /\ NoFrame
    /\ UNCHANGED <<inputVars, filterVars, collideR, exported, buildVars, viewVars, simulation, alphaTarget,
                   uiVars, rafActivate, sizeMode, groupMode, ticks,
                   tickedInDrag>>

GroupModes == {"genre", "community"}

\* setGroupMode: a mode that is not recognised returns at once
SetGroupMode(mode) ==
    /\ IF mode \notin GroupModes
       THEN groupMode' = groupMode /\ NoFrame
       ELSE /\ groupMode' = mode
            /\ IF active
               THEN SetFrame(render(FrameState(skipEdgeFrames, rafRender),
                                    active, layoutLoaded))
               ELSE NoFrame
    /\ UNCHANGED <<inputVars, filterVars, collideR, exported, buildVars, viewVars, simVars, uiVars,
                   rafActivate, sizeMode, layoutMode, forceProfile, ticks,
                   tickedInDrag>>

\* the page changes its filter and calls onFilterChange
OnFilterChange(on, passes) ==
    /\ filterActive' = on
    /\ filterPasses' = passes
    /\ IF active
       THEN SetFrame(render(FrameState(skipEdgeFrames, rafRender), active, layoutLoaded))
       ELSE NoFrame
    /\ UNCHANGED <<inputVars, collideR, exported, buildVars, viewVars, simVars, uiVars,
                   rafActivate, modeVars, ticks, tickedInDrag>>

\* the filters the page sets: off, or on with the set of ids that pass
FilterInputs == { <<FALSE, {}>>, <<TRUE, {}>>, <<TRUE, {"A"}>>, <<TRUE, {"A", "B"}>> }
GroupModeInputs == {"genre", "community", "bogus"}

----------------------------------------------------------------------------
Next ==
    \/ LoadAndBuild
    \/ LoadFail
    \/ Tick
    \/ TimerRunsToSettle
    \/ Activate
    \/ ActivateFrame
    \/ RenderFrame
    \/ Deactivate
    \/ MouseDown
    \/ \E p \in PointerTargets : MouseMove(p)
    \/ MouseUp
    \/ \E k2 \in ZoomSteps : Wheel(k2)
    \/ KeyR
    \/ KeyF
    \/ \E m \in SizeModeInputs : SetSizeMode(m)
    \/ \E m \in LayoutModeInputs : SetLayoutMode(m)
    \/ OnClick
    \/ OnMouseLeave
    \/ \E m \in GroupModeInputs : SetGroupMode(m)
    \/ \E f \in FilterInputs : OnFilterChange(f[1], f[2])
    \/ \E v \in WindowSizes : WindowResize(v[1], v[2])
    \/ LoadFailLate
    \/ \E id \in SelectIds : SelectGame(id)
    \/ \E v \in ExportSizes, src \in ExportSources : ExportRender(v[1], v[2], src)
    \/ \E p \in PointerTargets, resolved \in BOOLEAN : TouchStart(p, resolved)
    \/ \E p \in PointerTargets : TouchMove(p)
    \/ \E p \in PointerTargets, tap \in BOOLEAN : TouchEnd(p, tap)
    \/ HoldTimerExpires

Spec == Init /\ [][Next]_vars

NextBuild == LoadAndBuild \/ LoadFail

SpecBuild == InitBuild /\ [][NextBuild]_vars

\* drag sessions on the active or inactive view, the timer running
NextDrag ==
    \/ LoadAndBuild
    \/ Tick
    \/ TimerRunsToSettle
    \/ (~active /\ Activate)
    \/ ActivateFrame
    \/ RenderFrame
    \/ MouseDown
    \/ \E p \in PointerTargets : MouseMove(p)
    \/ MouseUp

SpecDrag == Init /\ [][NextDrag]_vars

\* drag sessions with the wheel turned in between
NextZoom ==
    \/ LoadAndBuild
    \/ Tick
    \/ TimerRunsToSettle
    \/ (~active /\ Activate)
    \/ ActivateFrame
    \/ RenderFrame
    \/ MouseDown
    \/ \E p \in PointerTargets : MouseMove(p)
    \/ MouseUp
    \/ \E k2 \in ZoomSteps : Wheel(k2)

SpecZoom == Init /\ [][NextZoom]_vars

\* activation and deactivation among the events that touch the timer.  The
\* animation frame that render requests for itself (RenderFrame) is followed
\* in the specifications above.
NextLife ==
    \/ LoadAndBuild
    \/ LoadFail
    \/ Tick
    \/ (~active /\ Activate)
    \/ ActivateFrame
    \/ Deactivate
    \/ MouseDown
    \/ \E p \in PointerTargets : MouseMove(p)
    \/ MouseUp
    \/ KeyR
    \/ SetSizeMode("connections")
    \/ SetLayoutMode("tight")

SpecLife == Init /\ [][NextLife]_vars

\* the timer followed step by step from the alpha of initSimulation
NextSettle ==
    \/ LoadAndBuild
    \/ TimerStep(MaxSettleTicks)
    \/ (~active /\ Activate)
    \/ ActivateFrame
    \/ RenderFrame

SpecSettle == Init /\ [][NextSettle]_vars

\* deactivation and reactivation of a running or settled simulation, with no
\* input from the pointer or the keyboard.  The browser runs every
\* animation-frame callback that was requested.
NextResume ==
    \/ LoadAndBuild
    \/ Tick
    \/ TimerRunsToSettle
    \/ (~active /\ Activate)
    \/ ActivateFrame
    \/ RenderFrame
    \/ Deactivate

SpecResume ==
    Init /\ [][NextResume]_vars /\ WF_vars(ActivateFrame) /\ WF_vars(RenderFrame)

\* the same events on a graph of one node with one render edge, the timer
\* followed step by step: a running timer keeps stepping until it stops
\* itself
InitDefer == InitWith({ [id \in {"A"} |-> WarmStart[id]] },
                      { << [source |-> 0, target |-> 0, weight |-> 600] >> })

NextDefer ==
    \/ LoadAndBuild
    \/ TimerStep(MaxSettleTicks)
    \/ (~active /\ Activate)
    \/ ActivateFrame
    \/ RenderFrame
    \/ Deactivate

SpecDefer ==
    /\ InitDefer /\ [][NextDefer]_vars
    /\ WF_vars(ActivateFrame) /\ WF_vars(RenderFrame)
    /\ WF_vars(TimerStep(MaxSettleTicks))

\* level of detail: graphs of several edge weights, drawn at zoom factors
\* of every band once the simulation has settled
LodWeights == {50, 200, 600}
LodLinkLists ==
    UNION { [1..n -> [source : {0}, target : {1}, weight : LodWeights]] : n \in 0..2 }
    \cup { [i \in 1..7 |-> [source |-> 0, target |-> 1,
                              weight |-> <<600, 50, 600, 200, 600, 400, 600>>[i]]] }
\* Scenario A of the specification with its weights (10, 600 at a minimum
\* render weight of 5) scaled by 10 to MIN_RENDER_WEIGHT, and unscaled
ScenarioA == << [source |-> 0, target |-> 1, weight |-> 100],
                [source |-> 1, target |-> 2, weight |-> 6000] >>
ScenarioAUnscaled == << [source |-> 0, target |-> 1, weight |-> 10],
                        [source |-> 1, target |-> 2, weight |-> 600] >>
LodZoomSteps == {50, 100, 200, 400}

InitLod ==
    \/ InitWith(MainPositionMaps, LodLinkLists)
    \/ InitWith({WarmStart}, {ScenarioA, ScenarioAUnscaled})

NextLod ==
    \/ LoadAndBuild
    \/ TimerRunsToSettle
    \/ (~active /\ Activate)
    \/ ActivateFrame
    \/ RenderFrame
    \/ \E p \in PointerTargets : MouseMove(p)
    \/ \E k2 \in LodZoomSteps : Wheel(k2)

SpecLod == InitLod /\ [][NextLod]_vars

\* the three mode setters called with known and unknown strings, on a
\* running or settled simulation, before and after the activation
NextModes ==
    \/ LoadAndBuild
    \/ TimerRunsToSettle
    \/ (~active /\ Activate)
    \/ ActivateFrame
    \/ RenderFrame
    \/ \E m \in SizeModeCalls : SetSizeMode(m)
    \/ \E m \in LayoutModeCalls : SetLayoutMode(m)
    \/ \E m \in GroupModeInputs : SetGroupMode(m)

SpecModes == Init /\ [][NextModes]_vars

\* setLayoutMode called with each recognised mode on a loaded graph, the view
\* active or not
NextLayout ==
    \/ LoadAndBuild
    \/ TimerRunsToSettle
    \/ (~active /\ Activate)
    \/ ActivateFrame
    \/ RenderFrame
    \/ Deactivate
    \/ \E m \in LayoutModes : (layoutLoaded /\ SetLayoutMode(m))

SpecLayout == Init /\ [][NextLayout]_vars

\* setSizeMode called with each recognised mode on a loaded graph of three
\* nodes with degrees 1, 4 and 3, the view active or not
SizePositionMaps == { [id \in {"A", "B", "C"} |-> WarmStart[id]] }
SizeLinkLists == { << [source |-> 0, target |-> 1, weight |-> 600],
                      [source |-> 1, target |-> 2, weight |-> 600],
                      [source |-> 2, target |-> 1, weight |-> 200],
                      [source |-> 1, target |-> 2, weight |-> 50] >> }

InitSize == InitWith(SizePositionMaps, SizeLinkLists)

NextSize ==
    \/ LoadAndBuild
    \/ TimerRunsToSettle
    \/ (~active /\ Activate)
    \/ ActivateFrame
    \/ RenderFrame
    \/ Deactivate
    \/ \E m \in SizeModes : (layoutLoaded /\ SetSizeMode(m))

SpecSize == InitSize /\ [][NextSize]_vars

\* fitToScreen on layouts of one to three nodes (a single node, coincident
\* nodes, nodes on a horizontal, a vertical and a diagonal line, a triangle)
\* in windows of several sizes
FitPositionMaps ==
    { [id \in {"A"} |-> <<500, 500>>],
      [id \in {"B"} |-> <<700, 300>>],
      [id \in {"A", "B"} |-> <<300, 700>>],
      [id \in {"A", "B"} |-> IF id = "A" THEN <<300, 500>> ELSE <<700, 500>>],
      [id \in {"A", "B"} |-> IF id = "A" THEN <<500, 300>> ELSE <<500, 700>>],
      [id \in {"A", "C"} |-> IF id = "A" THEN <<300, 300>> ELSE <<500, 700>>],
      [id \in {"A", "B", "C"} |->
          CASE id = "A" -> <<300, 300>> [] id = "B" -> <<700, 500>> [] id = "C" -> <<500, 700>>],
      [id \in {"A", "B", "C"} |->
          CASE id = "A" -> <<300, 500>> [] id = "B" -> <<500, 500>> [] id = "C" -> <<700, 500>>] }

InitFit == InitWith(FitPositionMaps, MainLinkLists)

NextFit ==
    \/ LoadAndBuild
    \/ (~active /\ Activate)
    \/ ActivateFrame
    \/ RenderFrame
    \/ Deactivate
    \/ KeyF
    \/ \E v \in WindowSizes : WindowResize(v[1], v[2])

SpecFit == InitFit /\ [][NextFit]_vars

\* the handlers and public methods called after loadAndBuild has failed,
\* before or after it built the nodes
NextNoData ==
    \/ LoadFail
    \/ LoadFailLate
    \/ (~active /\ Activate)
    \/ ActivateFrame
    \/ Deactivate
    \/ MouseDown
    \/ \E p \in PointerTargets : MouseMove(p)
    \/ OnClick
    \/ OnMouseLeave
    \/ \E k2 \in ZoomSteps : Wheel(k2)
    \/ KeyR
    \/ KeyF
    \/ SetSizeMode("connections")
    \/ SetLayoutMode("tight")
    \/ OnFilterChange(TRUE, {})
    \/ SelectGame("A")
    \/ ExportRender(960, 540, "precomputed")
    \/ ExportRender(960, 540, "fresh")

SpecNoData == Init /\ [][NextNoData]_vars

\* graphs that load with no node (no id has a position) or with no render
\* edge (the edges end at nodes without position)
DegeneratePositionMaps == { [id \in S |-> WarmStart[id]] : S \in {{}, {"A"}} }
DegenerateLinkLists == { <<>>,
                         << [source |-> 0, target |-> 1, weight |-> 49],
                            [source |-> 0, target |-> 2, weight |-> 600] >> }

InitDegenerate == InitWith(DegeneratePositionMaps, DegenerateLinkLists)

NextDegenerate ==
    \/ LoadAndBuild
    \/ TimerRunsToSettle
    \/ (~active /\ Activate)
    \/ ActivateFrame
    \/ RenderFrame
    \/ MouseDown
    \/ \E p \in PointerTargets : MouseMove(p)
    \/ MouseUp
    \/ OnClick
    \/ KeyF
    \/ SetSizeMode("connections")

SpecDegenerate == InitDegenerate /\ [][NextDegenerate]_vars

\* exports of a graph with no node, and of two nodes with or without a
\* force link between them, while the live view is fitted, zoomed and dragged
ExportPositionMaps == { [id \in S |-> WarmStart[id]] : S \in {{}, {"A", "B"}} }
ExportLinkLists == { <<>>, << [source |-> 0, target |-> 1, weight |-> 600] >> }

InitExport == InitWith(ExportPositionMaps, ExportLinkLists)

NextExport ==
    \/ LoadAndBuild
    \/ TimerRunsToSettle
    \/ (~active /\ Activate)
    \/ ActivateFrame
    \/ MouseDown
    \/ \E p \in PointerTargets : MouseMove(p)
    \/ KeyF
    \/ \E v \in ExportSizes, src \in ExportSources : ExportRender(v[1], v[2], src)

SpecExport == InitExport /\ [][NextExport]_vars

\* drag sessions of a single node among the commands that set alpha, with
\* the view deactivated and activated in between
OneNodePositionMaps == { [id \in {"A"} |-> WarmStart[id]] }

InitOneNode == InitWith(OneNodePositionMaps, MainLinkLists)

NextEnergy ==
    \/ LoadAndBuild
    \/ Tick
    \/ TimerRunsToSettle
    \/ (~active /\ Activate)
    \/ ActivateFrame
    \/ Deactivate
    \/ MouseDown
    \/ MouseUp
    \/ KeyR
    \/ SetSizeMode("connections")
    \/ SetLayoutMode("tight")
    \/ Wheel(300)

SpecEnergy == InitOneNode /\ [][NextEnergy]_vars

\* mouse and touch events on a settled graph, with the hold timer
NextHover ==
    \/ LoadAndBuild
    \/ TimerRunsToSettle
    \/ (~active /\ Activate)
    \/ ActivateFrame
    \/ MouseDown
    \/ \E p \in PointerTargets : MouseMove(p)
    \/ MouseUp
    \/ OnMouseLeave
    \/ \E p \in PointerTargets, resolved \in BOOLEAN : TouchStart(p, resolved)
    \/ \E p \in PointerTargets : TouchMove(p)
    \/ \E p \in PointerTargets, tap \in BOOLEAN : TouchEnd(p, tap)
    \/ HoldTimerExpires

SpecHover == InitOneNode /\ [][NextHover]_vars

\* every source of a transform: the fit (on activation, after the load, on
\* key F) in windows of several sizes, the wheel turned to the ends of the
\* scale extent, the pan of a finger and selectGame, on two nodes far from
\* each other and on two nodes close to each other
ZoomBoundPositionMaps ==
    { [id \in {"A", "B"} |-> WarmStart[id]],
      [id \in {"A", "B"} |-> IF id = "A" THEN <<500, 500>> ELSE <<501, 501>>] }
ZoomBoundSteps == {SCALE_EXTENT_MIN, 100, SCALE_EXTENT_MAX}

InitZoomBound == InitWith(ZoomBoundPositionMaps, MainLinkLists)

NextZoomBound ==
    \/ LoadAndBuild
    \/ (~active /\ Activate)
    \/ ActivateFrame
    \/ KeyF
    \/ \E v \in WindowSizes : WindowResize(v[1], v[2])
    \/ \E k2 \in ZoomBoundSteps : Wheel(k2)
    \/ \E p \in PointerTargets : TouchStart(p, FALSE)
    \/ \E p \in PointerTargets : TouchMove(p)
    \/ \E p \in PointerTargets : TouchEnd(p, FALSE)
    \/ \E id \in SelectIds : SelectGame(id)

SpecZoomBound == InitZoomBound /\ [][NextZoomBound]_vars

\* drag sessions of the mouse and of fingers on two nodes, with the view
\* deactivated and activated in between
NextPin ==
    \/ LoadAndBuild
    \/ (~active /\ Activate)
    \/ ActivateFrame
    \/ Deactivate
    \/ MouseDown
    \/ \E p \in PointerTargets : MouseMove(p)
    \/ MouseUp
    \/ \E p \in PointerTargets : TouchStart(p, TRUE)
    \/ \E p \in PointerTargets : TouchMove(p)
    \/ \E p \in PointerTargets : TouchEnd(p, FALSE)

SpecPin == Init /\ [][NextPin]_vars

\* frames on a settled graph with hover, selection, a filter and the wheel
RenderLinkLists == { << [source |-> 0, target |-> 1, weight |-> 600],
                        [source |-> 1, target |-> 0, weight |-> 600],
                        [source |-> 0, target |-> 1, weight |-> 50] >> }
RenderZoomSteps == {100, 300}

InitRender == InitWith(MainPositionMaps, RenderLinkLists)

NextRender ==
    \/ LoadAndBuild
    \/ TimerRunsToSettle
    \/ (~active /\ Activate)
    \/ ActivateFrame
    \/ RenderFrame
    \/ \E p \in PointerTargets : MouseMove(p)
    \/ OnClick
    \/ OnMouseLeave
    \/ \E k2 \in RenderZoomSteps : Wheel(k2)
    \/ \E f \in FilterInputs : OnFilterChange(f[1], f[2])

SpecRender == InitRender /\ [][NextRender]_vars

----------------------------------------------------------------------------
(* Properties of the built graph model                                     *)

NodeIdxs == 0..(Len(simNodes) - 1)

HasPosition(i) == nodes[i + 1].id \in DOMAIN positions

\* raw edges loadAndBuild keeps: both endpoints survive, weight at or above
\* MIN_RENDER_WEIGHT
KeptRawLinks == {i \in 1..Len(links) :
                    /\ HasPosition(links[i].source) /\ HasPosition(links[i].target)
                    /\ links[i].weight >= MIN_RENDER_WEIGHT}

TouchesExcluded(l) == ~HasPosition(l.source) \/ ~HasPosition(l.target)

\* C1: once loadAndBuild has built the model, every link of renderLinks has
\* si and ti in [0, simNodes.length), every link of forceLinks refers to nodes
\* of simNodes, and the node at every endpoint is a raw node that has an entry
\* in the warm-start position map.
C1_IndexIntegrity ==
    layoutLoaded =>
        /\ \A i \in 1..Len(renderLinks) :
              /\ renderLinks[i].si \in NodeIdxs
              /\ renderLinks[i].ti \in NodeIdxs
              /\ simNodes[renderLinks[i].si + 1].id \in DOMAIN positions
              /\ simNodes[renderLinks[i].ti + 1].id \in DOMAIN positions
        /\ \A i \in 1..Len(forceLinks) :
              /\ forceLinks[i].source \in NodeIdxs
              /\ forceLinks[i].target \in NodeIdxs
              /\ simNodes[forceLinks[i].source + 1].id \in DOMAIN positions
              /\ simNodes[forceLinks[i].target + 1].id \in DOMAIN positions

\* a model built from a node list with an excluded node and an edge list
\* with an edge at that node, which still has render and physics edges
C1_Witness ==
    /\ layoutLoaded
    /\ Len(simNodes) < Len(nodes)
    /\ \E i \in 1..Len(links) : TouchesExcluded(links[i])
    /\ Len(renderLinks) >= 1 /\ Len(forceLinks) >= 1

IsPrefixOfRenderLinks ==
    /\ Len(forceLinks) = Min(MAX_FORCE_LINKS, Len(renderLinks))
    /\ \A i \in 1..Len(forceLinks) :
          /\ forceLinks[i].source = renderLinks[i].si
          /\ forceLinks[i].target = renderLinks[i].ti
          /\ forceLinks[i].weight = renderLinks[i].weight

\* C2 (as amended): for every raw edge list the render edge set is sorted
\* descending by weight, equal weights allowed next to each other, and
\* forceLinks is exactly the prefix of the render edge set of length
\* min(MAX_FORCE_LINKS, renderLinks.length), same endpoints and weights in
\* the same order.
C2_SortedDescendingPrefix ==
    layoutLoaded =>
        /\ \A i \in 1..Len(renderLinks), j \in 1..Len(renderLinks) :
              i < j => renderLinks[i].weight >= renderLinks[j].weight
        /\ IsPrefixOfRenderLinks

\* C2 as stated: the render edge set is sorted strictly descending by weight.
C2_StrictlyDescending ==
    layoutLoaded =>
        /\ \A i \in 1..Len(renderLinks), j \in 1..Len(renderLinks) :
              i < j => renderLinks[i].weight > renderLinks[j].weight
        /\ IsPrefixOfRenderLinks

\* the raw list held the lighter edge first; the sort moved the heavier one
\* to the front and the physics subset is a proper prefix
C2_Witness ==
    /\ layoutLoaded
    /\ Len(links) = 2 /\ KeptRawLinks = {1, 2}
    /\ links[1].weight < links[2].weight
    /\ Len(renderLinks) = 2
    /\ renderLinks[1].weight > renderLinks[2].weight
    /\ Len(forceLinks) < Len(renderLinks)

DegreeOf(i) == IF i \in DOMAIN nodeDegree THEN nodeDegree[i] ELSE 0

RECURSIVE SumDegreesBelow(_)
SumDegreesBelow(n) == IF n = 0 THEN 0 ELSE DegreeOf(n - 1) + SumDegreesBelow(n - 1)

SourceEnds(i) == Cardinality({e \in 1..Len(renderLinks) : renderLinks[e].si = i})
TargetEnds(i) == Cardinality({e \in 1..Len(renderLinks) : renderLinks[e].ti = i})

\* C3 (as amended): for every raw edge list and every surviving node i,
\* nodeDegree(i) (0 when absent) is the number of edge ends of the render set
\* at i, an edge from i to i counting twice; the degrees add up to
\* 2 x renderLinks.length; the count is over the render set, not over the
\* physics subset.
C3_DegreeCountsEdgeEnds ==
    layoutLoaded =>
        /\ DOMAIN nodeDegree \subseteq NodeIdxs
        /\ \A i \in NodeIdxs : DegreeOf(i) = SourceEnds(i) + TargetEnds(i)
        /\ SumDegreesBelow(Len(simNodes)) = 2 * Len(renderLinks)

\* C3 as stated: nodeDegree(i) is the number of render-set edges that have i
\* as either endpoint, and the degrees add up to 2 x renderLinks.length.
C3_DegreeCountsEdges ==
    layoutLoaded =>
        /\ \A i \in NodeIdxs :
              DegreeOf(i) = Cardinality({e \in 1..Len(renderLinks) :
                                renderLinks[e].si = i \/ renderLinks[e].ti = i})
        /\ SumDegreesBelow(Len(simNodes)) = 2 * Len(renderLinks)

\* two render edges at node 0, one of them from the node to itself, and a
\* physics subset that holds only one of them
C3_Witness ==
    /\ layoutLoaded
    /\ Len(renderLinks) = 2 /\ Len(forceLinks) = 1
    /\ \E e \in 1..2 : renderLinks[e].si = 0 /\ renderLinks[e].ti = 0
    /\ \E e \in 1..2 : renderLinks[e].si # renderLinks[e].ti
    /\ DegreeOf(0) = 3

\* C4: for every raw node list and warm-start position map, a raw node is in
\* simNodes exactly once if the map has a position for its id and not at all
\* otherwise; surviving nodes keep their input order; each node's _simIdx is
\* its offset in simNodes; every raw edge touching an excluded node is
\* dropped (the render set holds exactly the kept raw edges).
C4_ExclusionAndDenseIndex ==
    layoutLoaded =>
        /\ \A i \in 0..(Len(nodes) - 1) :
              Cardinality({j \in 1..Len(simNodes) : simNodes[j].origIdx = i})
                 = IF HasPosition(i) THEN 1 ELSE 0
        /\ \A j \in 1..Len(simNodes), k \in 1..Len(simNodes) :
              j < k => simNodes[j].origIdx < simNodes[k].origIdx
        /\ \A j \in 1..Len(simNodes) :
              /\ simNodes[j].simIdx = j - 1
              /\ simNodes[j].id = nodes[simNodes[j].origIdx + 1].id
        /\ Len(renderLinks) = Cardinality(KeptRawLinks)
        /\ \A e \in 1..Len(renderLinks) : \E i \in KeptRawLinks :
              /\ simNodes[renderLinks[e].si + 1].origIdx = links[i].source
              /\ simNodes[renderLinks[e].ti + 1].origIdx = links[i].target
              /\ renderLinks[e].weight = links[i].weight

\* the middle raw node has no position: the survivors are the first and the
\* third raw node at offsets 0 and 1, the edge at the excluded node is gone
\* and the edge between the survivors is kept
C4_Witness ==
    /\ layoutLoaded
    /\ DOMAIN positions = {"A", "C"}
    /\ Len(simNodes) = 2
    /\ simNodes[2].origIdx = 2 /\ simNodes[2].simIdx = 1
    /\ Len(links) = 2
    /\ TouchesExcluded(links[1]) /\ links[1].weight >= MIN_RENDER_WEIGHT
    /\ KeptRawLinks = {2}
    /\ Len(renderLinks) = 1 /\ renderLinks[1].si = 0 /\ renderLinks[1].ti = 1

----------------------------------------------------------------------------
(* Properties of drag sessions                                             *)

Dragged == simNodes[draggedNode + 1]

AtPin(n) == n.fx = Some(n.x) /\ n.fy = Some(n.y)

NoPin(n) == n.fx = Null /\ n.fy = Null

DragEnds == draggedNode # NoNode /\ draggedNode' = NoNode

PinnedNodesHeldBy(tickStep) ==
    tickStep =>
        \A i \in 1..Len(simNodes) :
            simNodes[i].fx # Null =>
                /\ simNodes'[i].fx = simNodes[i].fx
                /\ simNodes'[i].fy = simNodes[i].fy
                /\ AtPin(simNodes'[i])

\* C5 as stated: from startDrag(node) until onDragEnd, after every simulation
\* tick a pinned node is at its pin (fx, fy), which the tick leaves as
\* startDrag or onDragMove set it; after onDragEnd the pin that startDrag
\* set is unset, so that no node is left pinned.
C5_PinnedUntilDragEnd ==
    [][ /\ PinnedNodesHeldBy(ticks' = ticks + 1)
        /\ (DragEnds => \A i \in 1..Len(simNodes') : NoPin(simNodes'[i])) ]_vars

\* C5, the part that holds: while draggedNode is set that node is pinned; a
\* pointer move of the session sets its pin to the world point under the
\* pointer; every tick leaves a pinned node on its pin; onDragEnd unsets the
\* pin of the node that draggedNode names at that moment.
C5_PinHeldThroughTicks ==
    [][ /\ (draggedNode' # NoNode =>
               simNodes'[draggedNode' + 1].fx # Null /\ simNodes'[draggedNode' + 1].fy # Null)
        /\ (draggedNode # NoNode /\ draggedNode' = draggedNode /\ pointer' # pointer =>
               /\ simNodes'[draggedNode + 1].fx = Some(fromScreenX(transform, pointer'[1]))
               /\ simNodes'[draggedNode + 1].fy = Some(fromScreenY(transform, pointer'[2])))
        /\ PinnedNodesHeldBy(ticks' = ticks + 1)
        /\ (DragEnds => NoPin(simNodes'[draggedNode + 1])) ]_vars

\* a drag in which the pointer carried the node to the other world point:
\* the tick of the session has run and left the node on its pin, under the
\* pointer
C5_Witness ==
    /\ draggedNode # NoNode /\ tickedInDrag
    /\ AtPin(Dragged)
    /\ Dragged.x # ((WarmStart[Dragged.id][1] - 500) * SIM_SPREAD * 2) \div 1000
    /\ toScreenX(transform, Dragged.x) = pointer[1]
    /\ toScreenY(transform, Dragged.y) = pointer[2]

\* C6 as stated: while a drag session is in progress, at every rendered frame
\* the dragged node is drawn under the pointer, i.e. its world position is
\* the world point of the current pointer position under the transform of
\* that frame.
C6_DraggedNodeUnderPointer ==
    (frameDrawn /\ draggedNode # NoNode) =>
        /\ toScreenX(transform, Dragged.x) = pointer[1]
        /\ toScreenY(transform, Dragged.y) = pointer[2]

----------------------------------------------------------------------------
(* Properties of the timer and of the view life cycle                      *)

\* C8: starting from alpha = 0.3 with alphaDecay 0.028 and alphaMin 0.005 on
\* a graph with at least one node, the timer stops itself with alpha below
\* the threshold after at most 145 steps: while it runs fewer steps have
\* been taken, and once 145 have been taken it has stopped.
C8_SettlesWithinBound ==
    /\ (stepper => ticks < 145 /\ alpha >= ALPHA_MIN)
    /\ (ticks >= 145 => ~stepper /\ alpha < SETTLED_ALPHA)
    /\ (simulation => alpha <= ALPHA_INIT)

\* the settled state, reached by 145 steps on a two-node graph
C8_Witness ==
    /\ layoutLoaded /\ Len(simNodes) >= 1
    /\ ticks = 145
    /\ ~stepper /\ alpha < SETTLED_ALPHA /\ alpha > 0

\* C9 as stated: immediately after deactivate() the hover state is cleared,
\* no drag session exists (no dragged node, no pinned node, no drag
\* listeners on window) and no touch-hold timer is pending.
C9_DeactivateCancels ==
    [][ active /\ ~active' =>
           /\ hoveredNode' = NoNode
           /\ draggedNode' = NoNode
           /\ \A i \in 1..Len(simNodes') : NoPin(simNodes'[i])
           /\ ~dragListeners'
           /\ touchHoldTimer' = NoNode ]_vars

\* C10 as stated: in every state in which the view is inactive the timer of
\* the simulation is stopped.
C10_NoTimerWhileInactive == ~active => ~stepper

Positions == [i \in 1..Len(simNodes) |-> <<simNodes[i].x, simNodes[i].y>>]

\* activate() has been called on a view whose simulation is above the settled
\* threshold with its timer stopped, and the frame it requested is pending
ResumePending ==
    /\ active /\ rafActivate > 0 /\ layoutLoaded
    /\ simulation /\ alpha > SETTLED_ALPHA /\ ~stepper

\* C11: if deactivate() stops a simulation whose alpha is above the settled
\* threshold and activate() is called afterwards, the timer is eventually
\* restarted with no further input (unless the view is deactivated again
\* first), and no step taken while the timer is stopped changes a node's
\* position: the positions at the restart are those of the deactivation, not
\* the warm-start layout.
C11_ResumeOnReactivation ==
    /\ ResumePending ~> (stepper \/ ~active)
    /\ [][(layoutLoaded /\ ~stepper) => Positions' = Positions]_vars

\* a tick moved a node off its warm-start position while the view was
\* active; the view was then deactivated and activated again (the only
\* frame since the activation is the one of its animation frame, which has
\* fitted the moved layout), and the timer runs again on the moved layout
C11_Witness ==
    /\ active /\ stepper /\ rafActivate = 0
    /\ ticks >= 1 /\ alpha > SETTLED_ALPHA /\ alpha < ALPHA_INIT
    /\ skipEdgeFrames = SKIP_EDGE_FRAMES - 1
    /\ \E i \in 1..Len(simNodes) :
          simNodes[i].x # ((WarmStart[simNodes[i].id][1] - 500) * SIM_SPREAD * 2) \div 1000
    /\ transform = fitTransform(simNodes, width, height)
    /\ transform # fitTransform(BuildSimNodes(nodes, positions, 1, <<>>), width, height)

\* activate() has been called on a loaded graph with at least one render
\* edge, and the edge-skip counter it set has not run out
EdgesDeferred ==
    /\ active /\ layoutLoaded /\ Len(renderLinks) > 0
    /\ skipEdgeFrames > 0

\* a frame that ran the base edge pass
EdgeFrame == frameDrawn /\ drawEdges

\* C12 as stated: after activate() on a loaded graph with a render edge at
\* most SKIP_EDGE_FRAMES frames skip the base edge pass (the counter is
\* within 0..3 and every frame that skips the pass lowers it), and a frame
\* that runs the base edge pass eventually follows with no further input
\* (unless the view is deactivated first), whether the simulation is running
\* or settled at the activation.
C12_EdgePassEventuallyRuns ==
    /\ [](skipEdgeFrames \in 0..SKIP_EDGE_FRAMES)
    /\ [][(frameDrawn' /\ ~drawEdges') => skipEdgeFrames' < skipEdgeFrames]_vars
    /\ EdgesDeferred ~> (EdgeFrame \/ ~active)

\* the view was activated on a settled simulation: the animation frame of
\* the activation has drawn its two frames without edges, the counter stands
\* at 1, the timer is stopped and no callback is pending
C12_Witness ==
    /\ EdgesDeferred /\ skipEdgeFrames = 1
    /\ simulation /\ alpha < SETTLED_ALPHA /\ ~stepper
    /\ rafActivate = 0 /\ rafRender = 0
    /\ frameDrawn /\ ~drawEdges

----------------------------------------------------------------------------
(* Properties of the level of detail of the base edge pass                 *)

\* zoom factors at the ends and the borders of the four bands, in 1/KUnit
LodZooms == {SCALE_EXTENT_MIN, 79, 80, 149, 150, 299, 300, SCALE_EXTENT_MAX}

\* the render edges drawn by the base edge pass of the frame, in any order
BaseEdgesDrawn ==
    UNION { {baseEdgePass[b].links[j] : j \in 1..Len(baseEdgePass[b].links)} :
              b \in 1..Len(baseEdgePass) }

SurvivorsAt(k) == {passLOD(k)[j] : j \in 1..Len(passLOD(k))}

\* C13 (P4): for a built graph whose render weights are all at or above
\* MIN_RENDER_WEIGHT, the number of render edges that pass the LOD weight
\* test does not decrease as the zoom factor k grows, across all four bands.
C13_LodMonotone ==
    layoutLoaded =>
        /\ \A i \in 1..Len(renderLinks) : renderLinks[i].weight >= MIN_RENDER_WEIGHT
        /\ \A k1 \in LodZooms, k2 \in LodZooms :
              k1 <= k2 => /\ Len(passLOD(k1)) <= Len(passLOD(k2))
                          /\ SurvivorsAt(k1) \subseteq SurvivorsAt(k2)

\* seven render edges of median 600 of which 4, 5, 6 and 7 pass in the four
\* bands, drawn with its base edge pass in the lowest band
C13_Witness ==
    /\ layoutLoaded /\ Len(renderLinks) = 7 /\ medianWeight = 600
    /\ Len(passLOD(79)) = 4 /\ Len(passLOD(80)) = 5
    /\ Len(passLOD(150)) = 6 /\ Len(passLOD(300)) = 7
    /\ frameDrawn /\ drawEdges /\ transform.k < 80
    /\ Cardinality(BaseEdgesDrawn) = 4

\* the step function of the claim, times 10
StepT(k) ==
    CASE k < 80  -> 10 * medianWeight
      [] k >= 80 /\ k < 150  -> 6 * medianWeight
      [] k >= 150 /\ k < 300 -> 3 * medianWeight
      [] k >= 300 -> 10 * MIN_RENDER_WEIGHT

NoOtherCull ==
    \A i \in 1..Len(renderLinks) :
        ~culledFilter(renderLinks[i]) /\ ~culledViewport(renderLinks[i])

\* C15: a render edge passes the LOD test of the base edge pass iff its
\* weight is at least T(k), T(k) being medianWeight below k = 0.8, 0.6 x
\* medianWeight below 1.5, 0.3 x medianWeight below 3.0 and
\* MIN_RENDER_WEIGHT from 3.0 on, where every render edge passes; a frame
\* whose base edge pass runs with no edge culled by the filter or the
\* viewport draws exactly the edges of weight at least T(transform.k).
C15_LodStepFunction ==
    layoutLoaded =>
        /\ \A k \in LodZooms \cup LodZoomSteps :
              /\ SurvivorsAt(k) = {i \in 1..Len(renderLinks) :
                                     10 * renderLinks[i].weight >= StepT(k)}
              /\ (k >= 300 => SurvivorsAt(k) = 1..Len(renderLinks))
        /\ (frameDrawn /\ drawEdges /\ NoOtherCull =>
               BaseEdgesDrawn = {i \in 1..Len(renderLinks) :
                                   10 * renderLinks[i].weight >= StepT(transform.k)})

\* a frame in the second band (k = 1.0) on a graph of median 600: the edge of
\* weight 600 is drawn, being at the threshold it is also drawn in the
\* lowest band; the edge of weight 400 is drawn (400 >= 360) and the edges
\* of weight 200 and 50 are not
C15_Witness ==
    /\ layoutLoaded /\ Len(renderLinks) = 7 /\ medianWeight = 600
    /\ frameDrawn /\ drawEdges /\ transform.k = 100 /\ NoOtherCull
    /\ {renderLinks[i].weight : i \in BaseEdgesDrawn} = {600, 400}
    /\ {renderLinks[i].weight : i \in SurvivorsAt(79)} = {600}

\* the weights of the edges of SurvivorsAt(k), in the order of renderLinks
SurvivorWeights(k) == [j \in 1..Len(passLOD(k)) |-> renderLinks[passLOD(k)[j]].weight]

ScenarioABuilt == layoutLoaded /\ links = ScenarioA

\* C14 (as amended): the model built from nodes A, B, C and the edges
\* (A,B,100), (B,C,6000) - Scenario A scaled by 10 to the minimum render
\* weight 50 of the code - has the render edge set [(B,C,6000), (A,B,100)]
\* and the median weight 100; both edges pass the LOD test in the lowest
\* band, the lighter one standing exactly at the threshold, and both pass
\* in the highest band.
C14_ScenarioABothSurvive ==
    ScenarioABuilt =>
        /\ renderLinks = << [si |-> 1, ti |-> 2, weight |-> 6000],
                            [si |-> 0, ti |-> 1, weight |-> 100] >>
        /\ medianWeight = 100
        /\ \A k \in LodZooms : k < 80 => SurvivorWeights(k) = <<6000, 100>>
        /\ \A k \in LodZooms : k >= 300 => SurvivorWeights(k) = <<6000, 100>>

\* C14 as stated (scaled the same way): render edge set
\* [(B,C,6000), (A,B,100)], median weight 100, only the heavier edge passes
\* the LOD test in the lowest band and both pass in the highest.
C14_ScenarioAOnlyHeavySurvives ==
    ScenarioABuilt =>
        /\ renderLinks = << [si |-> 1, ti |-> 2, weight |-> 6000],
                            [si |-> 0, ti |-> 1, weight |-> 100] >>
        /\ medianWeight = 100
        /\ \A k \in LodZooms : k < 80 => SurvivorWeights(k) = <<6000>>
        /\ \A k \in LodZooms : k >= 300 => SurvivorWeights(k) = <<6000, 100>>

\* Scenario A drawn in the lowest band (the fit of the three nodes gives
\* k = 0.5): the base edge pass draws both edges
C14_Witness ==
    /\ ScenarioABuilt /\ Len(simNodes) = 3
    /\ frameDrawn /\ drawEdges /\ transform.k < 80
    /\ BaseEdgesDrawn = {1, 2}

\* C16: after a build with n > 0 render edges medianWeight is the weight at
\* offset floor(n / 2) of the render edge set, which is sorted descending
\* (the lower of the two middle weights of an even count, no averaging);
\* after a build with no render edge medianWeight is 0, the value it is
\* declared with.
C16_MedianRule ==
    layoutLoaded =>
        IF Len(renderLinks) > 0
        THEN /\ \A i \in 1..(Len(renderLinks) - 1) :
                   renderLinks[i].weight >= renderLinks[i + 1].weight
             /\ medianWeight = renderLinks[(Len(renderLinks) \div 2) + 1].weight
        ELSE medianWeight = 0

\* two render edges of different weights: the median is the lighter one
C16_Witness ==
    /\ layoutLoaded /\ Len(renderLinks) = 2
    /\ renderLinks[1].weight > renderLinks[2].weight
    /\ medianWeight = renderLinks[2].weight

----------------------------------------------------------------------------
(* Properties of a rendered frame                                          *)

\* the node whose edges the claim expects highlighted: the hovered one, else
\* the selected one
Inspected == IF hoveredNode # NoNode THEN hoveredNode ELSE selectedNode

IncidentTo(h) == {i \in 1..Len(renderLinks) :
                    renderLinks[i].si = h \/ renderLinks[i].ti = h}

HighlightDrawn == {highlightPass[j].link : j \in 1..Len(highlightPass)}

\* C17: in every frame in which a node is hovered or selected (the hovered
\* one first), every render edge incident to that node is drawn in the
\* highlighted-edge pass unless both its ends lie beyond one side of the
\* viewport: neither its weight, nor the LOD threshold, nor the filter, nor
\* the edge-skip counter keeps it out; no other edge is drawn in that pass,
\* and the pass is coloured for hover whenever a node is hovered.
C17_HighlightPassComplete ==
    (frameDrawn /\ Inspected # NoNode) =>
        /\ HighlightDrawn = {i \in IncidentTo(Inspected) : ~culledViewport(renderLinks[i])}
        /\ \A j \in 1..Len(highlightPass) :
              highlightPass[j].color = (IF hoveredNode # NoNode THEN "blue" ELSE "orange")

\* a frame drawn while the edge-skip counter was running, at k = 1.0 with a
\* filter that no node passes: node 0 is hovered, node 1 selected, the base
\* edge pass is skipped, the edge of weight 50 is below the LOD threshold,
\* and the highlighted-edge pass draws all three edges of node 0 for hover
C17_Witness ==
    /\ frameDrawn /\ ~drawEdges /\ skipEdgeFrames > 0
    /\ hoveredNode = 0 /\ selectedNode = 1
    /\ filterActive /\ filterPasses = {}
    /\ transform.k = 100
    /\ \E i \in 1..Len(renderLinks) :
          culledLOD(renderLinks[i], transform.k, medianWeight) /\ culledFilter(renderLinks[i])
    /\ HighlightDrawn = {1, 2, 3}
    /\ \A j \in 1..Len(highlightPass) : highlightPass[j].color = "blue"

\* the layer of a draw operation in the order the claim states
Layer(o) ==
    CASE o.op = "background" -> 0
      [] o.op = "edges"      -> 1
      [] o.op = "ring"       -> 2
      [] o.op = "node"       -> 2
      [] o.op = "highlight"  -> 3
      [] o.op = "label"      -> 4
      [] o.op = "tooltip"    -> 5
      [] o.op = "stats"      -> 6

OpsOf(ops, kind) == {i \in 1..Len(ops) : ops[i].op = kind}

\* C18: in every frame the draw operations come in the order background,
\* base edge batches, nodes (the ring of a hovered or selected node right
\* before its fill), highlighted edges, labels, tooltip, stats: the frame
\* opens with one background fill and closes with one stats overlay, the
\* layers never go back, so no base edge follows a node and no node follows
\* a label or the tooltip.
C18_PaintersOrder ==
    frameDrawn =>
        LET ops == frameOps
            layers == [i \in 1..Len(ops) |-> Layer(ops[i])]
        IN  /\ OpsOf(ops, "background") = {1}
            /\ OpsOf(ops, "stats") = {Len(ops)}
            /\ \A i \in 1..(Len(ops) - 1) : layers[i] <= layers[i + 1]
            /\ \A i \in OpsOf(ops, "ring") :
                  /\ i + 1 \in OpsOf(ops, "node")
                  /\ ops[i + 1].node = ops[i].node

\* a frame that has every layer: base edges, both nodes with the ring of the
\* hovered one, its highlighted edges, a label, the tooltip
C18_Witness ==
    /\ frameDrawn
    /\ LET ops == frameOps
       IN  /\ OpsOf(ops, "edges") # {} /\ OpsOf(ops, "ring") # {}
           /\ Cardinality(OpsOf(ops, "node")) = 2
           /\ OpsOf(ops, "highlight") # {} /\ OpsOf(ops, "label") # {}
           /\ OpsOf(ops, "tooltip") # {}

\* the nodes inside the viewport that fail the active filter
DimmedNodes == {i \in 1..Len(simNodes) :
                  filterActive /\ nodeInView(simNodes[i]) /\ ~passesFilter(simNodes[i])}

\* the opacities at which the node pass fills node i (none if it skips it)
FillAlphas(i) == {nodePass[j].alpha : j \in {q \in 1..Len(nodePass) :
                     nodePass[q].op = "node" /\ nodePass[q].node = simNodes[i].simIdx}}

\* C19: in every frame with a filter active, every node inside the viewport
\* that fails the filter is filled once in the node pass, at opacity 0.10,
\* whether or not it is hovered or selected.
C19_FilteredNodesDimmed ==
    frameDrawn => \A i \in DimmedNodes : FillAlphas(i) = {10}

\* the part of C19 that the node pass keeps: a node that fails the filter is
\* never skipped
C19_FilteredNodesDrawn ==
    frameDrawn => \A i \in DimmedNodes : FillAlphas(i) # {}

\* a frame in which the hovered node fails the filter and is filled at full
\* opacity, while the other failing node is filled at 0.10
C19_Witness ==
    /\ frameDrawn /\ filterActive
    /\ \E i, j \in DimmedNodes :
          /\ hoveredNode = simNodes[i].simIdx /\ FillAlphas(i) = {100}
          /\ ~hasRing(simNodes[j]) /\ FillAlphas(j) = {10}

----------------------------------------------------------------------------
(* Properties of the mode setters                                          *)

\* C20: a setter called with a string that is not a recognised mode is
\* rejected, so no step ever stores an unrecognised color, size or layout
\* mode: a stored mode that changes changes to a recognised one.
C20_InvalidModeRejected ==
    [][ /\ (groupMode' # groupMode => groupMode' \in GroupModes)
        /\ (sizeMode' # sizeMode => sizeMode' \in SizeModes)
        /\ (layoutMode' # layoutMode => layoutMode' \in LayoutModes) ]_vars

\* unknown strings stored as size mode and as layout mode of a loaded,
\* active graph, the layout call having reheated the simulation to 0.4 and
\* installed the default forces over the tight ones; the color mode, whose
\* setter validates, is a recognised one
C20_Witness ==
    /\ layoutLoaded /\ active /\ simulation
    /\ sizeMode \notin SizeModes
    /\ layoutMode \notin LayoutModes
    /\ groupMode = "community"
    /\ alpha = ALPHA_LAYOUT_MODE /\ stepper
    /\ forceProfile = "default"

\* what the claim expects of a step that changes the layout mode
LayoutSwitched ==
    /\ Positions' = Positions
    /\ forceProfile' = ProfileOf(layoutMode')
    /\ alpha' > SETTLED_ALPHA /\ stepper'

\* C21: a call of setLayoutMode on a loaded graph, the view active or not,
\* that changes the layout mode leaves every node where it is, leaves the
\* force bundle of the new mode installed, and reheats the simulation (alpha
\* above the settled threshold, timer running).
C21_LayoutSwitch ==
    [][(layoutLoaded /\ layoutMode' # layoutMode) => LayoutSwitched]_vars

\* the same for the calls made while the view is active
C21_LayoutSwitchWhileActive ==
    [][(layoutLoaded /\ active /\ layoutMode' # layoutMode) => LayoutSwitched]_vars

\* the view was switched to "clustered" while it was inactive and has been
\* activated since: the simulation runs with the default forces
C21_Witness ==
    /\ layoutLoaded /\ active /\ rafActivate = 0 /\ stepper
    /\ layoutMode = "clustered"
    /\ forceProfile = "default"

\* the attribute of node n that a size mode reads
AttributeOf(n, mode) ==
    CASE mode = "reviews"     -> n.reviews
      [] mode = "rating"      -> n.game.rating
      [] mode = "price"       -> n.game.price
      [] mode = "connections" -> DegreeOf(n.simIdx)

\* the radius the claim expects of node i of sn under a mode, in 1/100: linear
\* over 0..100 for the rating, else NODE_MIN_R plus the share sqrt(value/max)
\* of the range
ExpectedR(sn, i, mode) ==
    LET range == NODE_MAX_R - NODE_MIN_R
        v == AttributeOf(sn[i], mode)
        top == CHOOSE m \in {AttributeOf(sn[j], mode) : j \in 1..Len(sn)} :
                  \A j \in 1..Len(sn) : AttributeOf(sn[j], mode) <= m
    IN  IF mode = "rating" THEN NODE_MIN_R + (range * v) \div 100
        ELSE IF top = 0 THEN NODE_MIN_R + range \div 2
        ELSE NODE_MIN_R + Isqrt((range * range * v) \div top)

\* every radius recomputed from the new mode, nothing else of a node
\* changed, and the collide force holding the new radii
SizesRecomputed ==
    /\ Len(simNodes') = Len(simNodes)
    /\ \A i \in 1..Len(simNodes) :
          simNodes'[i] = [simNodes[i] EXCEPT !.r = ExpectedR(simNodes, i, sizeMode')]
    /\ collideR' = [i \in 1..Len(simNodes) |-> simNodes'[i].r + 50]

\* C22: a call of setSizeMode on a loaded graph that changes the size mode
\* recomputes every node's radius from the attribute of the new mode,
\* updates the radii of the collide force, and leaves alpha above the
\* settled threshold, in every state in which it is called.
C22_SizeSwitch ==
    [][(layoutLoaded /\ sizeMode' # sizeMode) =>
          (SizesRecomputed /\ alpha' > SETTLED_ALPHA)]_vars

\* the recomputation alone, in every state
C22_SizesRecomputed ==
    [][(layoutLoaded /\ sizeMode' # sizeMode) => SizesRecomputed]_vars

\* the reheat of the calls made while the view is active
C22_ReheatWhileActive ==
    [][(layoutLoaded /\ active /\ sizeMode' # sizeMode) =>
          (alpha' = ALPHA_SIZE_MODE /\ stepper')]_vars

\* the size mode was switched to "connections" on an inactive view whose
\* simulation had settled: the node of degree 1 (largest degree 4) has the
\* radius half way up the range, the collide force has the new radii, and
\* the simulation is still settled and stopped
C22_Witness ==
    /\ layoutLoaded /\ ~active /\ simulation
    /\ sizeMode = "connections"
    /\ DegreeOf(0) = 1 /\ DegreeOf(1) = 4
    /\ simNodes[1].r = NODE_MIN_R + (NODE_MAX_R - NODE_MIN_R) \div 2
    /\ simNodes[2].r = NODE_MAX_R
    /\ collideR = collideRadii(simNodes)
    /\ alpha < ALPHA_MIN /\ ~stepper

----------------------------------------------------------------------------
(* Properties of fitToScreen                                               *)

BoxX0 == MinOver([i \in 1..Len(simNodes) |-> simNodes[i].x], 1)
BoxX1 == MaxOver([i \in 1..Len(simNodes) |-> simNodes[i].x], 1)
BoxY0 == MinOver([i \in 1..Len(simNodes) |-> simNodes[i].y], 1)
BoxY1 == MaxOver([i \in 1..Len(simNodes) |-> simNodes[i].y], 1)

\* every node inside the viewport inset by half the padding on each side,
\* and the bounding box centred, under the transform t
FitsInset(t) ==
    /\ \A i \in 1..Len(simNodes) :
          /\ FIT_PAD \div 2 <= toScreenX(t, simNodes[i].x)
          /\ toScreenX(t, simNodes[i].x) <= width - FIT_PAD \div 2
          /\ FIT_PAD \div 2 <= toScreenY(t, simNodes[i].y)
          /\ toScreenY(t, simNodes[i].y) <= height - FIT_PAD \div 2
    /\ toScreenX(t, BoxX0) + toScreenX(t, BoxX1) = width
    /\ toScreenY(t, BoxY0) + toScreenY(t, BoxY1) = height

\* C23: for every non-empty node array and every viewport size, the
\* transform fitToScreen computes puts every node inside the viewport inset
\* by the padding and centres the bounding box.
C23_FitInsideViewport ==
    Len(simNodes) > 0 => FitsInset(fitTransform(simNodes, width, height))

\* the same for the viewports that are larger than the padding
C23_FitInsideLargeViewport ==
    (Len(simNodes) > 0 /\ width > FIT_PAD /\ height > FIT_PAD) =>
        /\ FitsInset(fitTransform(simNodes, width, height))
        /\ fitTransform(simNodes, width, height).k > 0

\* key F or an activation has fitted a triangle of nodes to a window
\* narrower than the padding: the scale is negative and the nodes lie
\* outside the inset viewport
C23_Witness ==
    /\ active /\ layoutLoaded /\ Len(simNodes) = 3
    /\ BoxX0 < BoxX1 /\ BoxY0 < BoxY1
    /\ width < FIT_PAD
    /\ transform = fitTransform(simNodes, width, height)
    /\ transform.k < 0
    /\ ~FitsInset(transform)

----------------------------------------------------------------------------
(* Properties of the no-data state                                         *)

\* C24: a failed loadAndBuild leaves the error flag set and the graph not
\* marked loaded, and from then on no handler or public method changes the
\* hovered, selected or dragged node, the transform, a node or the state of
\* the simulation.
C24_NoDataHandlersAreNoOps ==
    /\ [](layoutError => ~layoutLoaded)
    /\ [][layoutError =>
            UNCHANGED <<hoveredNode, selectedNode, draggedNode, transform,
                        simNodes, simVars>>]_vars

\* what does hold in the no-data state: hover, selection, drag and the
\* simulation never change, and exportRender returns null
C24_NoDataKeepsSelection ==
    /\ [](layoutError => (~layoutLoaded /\ exported.ret = Null))
    /\ [][layoutError =>
            UNCHANGED <<hoveredNode, selectedNode, draggedNode, simVars>>]_vars

\* loadAndBuild failed after it had built the nodes; since then key F has
\* fitted the transform to them and setSizeMode has recomputed their radii
C24_Witness ==
    /\ layoutError /\ ~layoutLoaded /\ ~simulation
    /\ Len(simNodes) = 2
    /\ transform # zoomIdentity /\ transform = fitTransform(simNodes, width, height)
    /\ sizeMode = "connections"
    /\ \A i \in 1..Len(simNodes) : simNodes[i].r = NODE_MIN_R

----------------------------------------------------------------------------
(* Properties of degenerate graphs                                         *)

\* C25: on a loaded graph without render edges (with or without nodes) every
\* frame opens with the background and closes with the stats overlay
\* showing the node count and zero edges, and draws no edge in between; the
\* frame of a graph without nodes is the background and the stats overlay
\* alone; the timer of an active view stops only when the simulation has
\* settled.
C25_DegenerateGraphRenders ==
    /\ []((frameDrawn /\ layoutLoaded /\ Len(renderLinks) = 0) =>
            LET ops == frameOps
            IN  /\ ops[1].op = "background"
                /\ ops[Len(ops)] = [op |-> "stats", nodes |-> Len(simNodes),
                                    edges |-> 0, settling |-> alpha > SETTLED_ALPHA]
                /\ OpsOf(ops, "edges") = {} /\ OpsOf(ops, "highlight") = {}
                /\ Cardinality(OpsOf(ops, "node")) <= Len(simNodes)
                /\ (Len(simNodes) = 0 => Len(ops) = 2))
    /\ [][(stepper /\ ~stepper' /\ active') => alpha' < ALPHA_MIN]_vars

\* a graph without nodes whose simulation has ticked until it settled, the
\* last tick having drawn the background and the stats overlay; the size
\* mode was switched on the way
C25_Witness ==
    /\ layoutLoaded /\ active /\ Len(simNodes) = 0 /\ Len(renderLinks) = 0
    /\ simulation /\ ~stepper /\ alpha < ALPHA_MIN /\ alpha > 0
    /\ frameDrawn /\ Len(frameOps) = 2
    /\ sizeMode = "connections"

----------------------------------------------------------------------------
(* Properties of exportRender                                              *)

\* the canvas coordinates of the frame f stay inside the canvas inset by the
\* padding of its width (one pixel of rounding allowed)
ExportInsideCanvas(f) ==
    \A i \in 1..Len(f.nodes) :
        /\ f.nodes[i].x >= padPx(f.w) - 1 /\ f.nodes[i].x <= f.w - padPx(f.w) + 1
        /\ f.nodes[i].y >= padPx(f.w) - 1 /\ f.nodes[i].y <= f.h - padPx(f.w) + 1

ExportReturn ==
    /\ (exported'.ret = Null) <=> (~layoutLoaded \/ Len(simNodes) = 0)
    /\ exported'.ret # Null =>
          /\ exported'.ret[1].ticks <= EXPORT_TICKS
          /\ exported'.ret[1].frame.w = exported'.call[1]
          /\ exported'.ret[1].frame.h = exported'.call[2]
          /\ ExportInsideCanvas(exported'.ret[1].frame)

\* C26: a call of exportRender, with either source, changes nothing of the
\* live view: not the transform, not a node's position, velocity or pinned
\* position, not the links, not the simulation's alpha or timer, not hover
\* or selection; it returns null exactly when no graph is loaded or the
\* graph has no node, the fresh simulation takes at most 500 ticks, and the
\* picture is fitted to the export canvas whatever the live transform is.
C26_ExportIsolation ==
    [][exported' # exported =>
         /\ UNCHANGED <<transform, simNodes, renderLinks, forceLinks, simVars,
                        hoveredNode, selectedNode, draggedNode>>
         /\ exported'.wrote = {}
         /\ ExportReturn]_vars

\* what holds of every call: everything of the live view but the velocities
\* stays, the velocities written are those of the ends of the force links
\* and only the fresh source writes them, and the return value is as C26
\* says
C26_ExportKeepsLiveView ==
    [][exported' # exported =>
         /\ UNCHANGED <<transform, simNodes, renderLinks, forceLinks, simVars,
                        hoveredNode, selectedNode, draggedNode>>
         /\ exported'.wrote \subseteq 0..(Len(simNodes) - 1)
         /\ (exported'.wrote # {} => exported'.call[3] = "fresh" /\ Len(forceLinks) > 0)
         /\ ExportReturn]_vars

\* a fresh export of a graph with a force link, asked for while a node is
\* pinned by a drag: the call returned a picture and wrote the velocities of
\* both live nodes
C26_Witness ==
    /\ exported.call = <<960, 540, "fresh">> /\ exported.ret # Null
    /\ exported.wrote = {0, 1}
    /\ draggedNode # NoNode /\ active
    /\ ExportInsideCanvas(exported.ret[1].frame)

----------------------------------------------------------------------------
(* Properties of the energy during a drag                                  *)

Dragging == draggedNode # NoNode

\* C27: while a node is dragged on the active view (the frame of an
\* activation not pending), the timer of the simulation runs and alpha is
\* driven to the target 0.3, so the simulation does not settle.
C27_EnergyWhileDragging ==
    (Dragging /\ active /\ rafActivate = 0) =>
        (simulation /\ stepper /\ alphaTarget = DRAG_ALPHA_TARGET)

\* what holds: a drag starts the timer and sets the target, the target stays
\* for the whole drag, and on a view that stays active no step taken during
\* the drag, of the timer or of another command, stops the timer
C27_EnergyWhileViewStaysActive ==
    /\ [](Dragging => simulation /\ alphaTarget = DRAG_ALPHA_TARGET)
    /\ [][(~Dragging /\ Dragging') => stepper']_vars
    /\ [][(Dragging /\ Dragging' /\ active /\ active' /\ stepper) => stepper']_vars
    /\ [][(Dragging /\ ticks' # ticks) => alpha' >= ALPHA_MIN]_vars

\* a drag that began on a settled simulation: the view was deactivated
\* before the first tick and activated again, the activation's frame has
\* run, and the timer stands still with the node still pinned
C27_Witness ==
    /\ Dragging /\ active /\ rafActivate = 0 /\ layoutLoaded
    /\ alphaTarget = DRAG_ALPHA_TARGET /\ alpha < ALPHA_MIN
    /\ ~stepper
    /\ simNodes[draggedNode + 1].fx # Null

----------------------------------------------------------------------------
(* Properties of hover during a drag                                       *)

C28_HoverFrozenButForHoldTimer ==
    [][(Dragging /\ hoveredNode' # hoveredNode) =>
          (touchHoldTimer # NoNode /\ hoveredNode' = touchHoldTimer
           /\ touchHoldTimer' = NoNode)]_vars

----------------------------------------------------------------------------
(* Properties of the zoom bound                                            *)

InScaleExtent(k) == k > 0 /\ SCALE_EXTENT_MIN <= k /\ k <= SCALE_EXTENT_MAX

\* C29: the scale of the transform is positive and inside the scale extent
\* [0.05, 30] in every state.
C29_ZoomBound == InScaleExtent(transform.k)

\* what holds: the pan keeps the scale, the wheel and selectGame set one
\* inside the extent; a new scale outside of it is the one fitToScreen
\* computed
C29_ZoomBoundButForFit ==
    /\ [][(transform'.k # transform.k /\ ~InScaleExtent(transform'.k)) =>
             (Len(simNodes') > 0
              /\ transform' = fitTransform(simNodes', width', height'))]_vars
    /\ [](~InScaleExtent(transform.k) => layoutLoaded)

\* key F or an activation on two nodes one unit apart: the fitted scale is
\* 200, above the extent's 30
C29_Witness ==
    /\ layoutLoaded /\ active /\ Len(simNodes) = 2
    /\ transform = fitTransform(simNodes, width, height)
    /\ transform.k > SCALE_EXTENT_MAX
    /\ width > FIT_PAD /\ height > FIT_PAD

----------------------------------------------------------------------------
(* Properties of the pin                                                   *)

Pinned(sn) == {i \in 1..Len(sn) : sn[i].fx # Null \/ sn[i].fy # Null}

\* C30: at most one node is pinned, and a node is pinned exactly when it
\* is the dragged node; so with no drag in progress no node is pinned.
C30_SinglePin ==
    /\ Cardinality(Pinned(simNodes)) <= 1
    /\ \A i \in 1..Len(simNodes) : (i \in Pinned(simNodes)) <=> (draggedNode = i - 1)

\* what holds: the dragged node is pinned, and a node other than the dragged
\* one is pinned only by a step that starts a drag while another is in
\* progress; no other step adds a pin, deactivation and activation included
C30_PinOfDraggedNode ==
    /\ [](Dragging => (draggedNode + 1) \in Pinned(simNodes))
    /\ [][(Pinned(simNodes') \ {draggedNode' + 1}) \subseteq
              (Pinned(simNodes) \ {draggedNode + 1})
              \cup (IF Dragging /\ draggedNode' # draggedNode
                    THEN {draggedNode + 1} ELSE {})]_vars

\* both pointers have been released after a second pointer-down on another
\* node: no drag is in progress and a node is still pinned
C30_Witness ==
    /\ ~Dragging /\ ~dragListeners /\ touches = 0
    /\ Pinned(simNodes) # {}
    /\ layoutLoaded /\ active

====
